---------------------------- MODULE Spec2Model ----------------------------
(***************************************************************************)
(* NSGA-II population manager of llm4ad                                    *)
(* (src/llm4ad/method/nsga2/population.py, class Population).              *)
(*                                                                         *)
(* Candidates (Function objects) live in a heap indexed by object id; the  *)
(* population lists hold object ids, as the Python lists hold references.  *)
(* Producer threads run register_function statement by statement (pc holds *)
(* the source line a thread is about to execute) and call selection().     *)
(***************************************************************************)
EXTENDS Integers, Sequences, FiniteSets, TLC

(***************************************************************************)
(* Bounds of the model.                                                    *)
(***************************************************************************)
NThreads == 2      \* producer threads
Capacity == 2      \* pop_size handed to the constructor
MaxCalls == 4      \* register_function calls in one run
MaxVal   == 1      \* finite objective values are 0..MaxVal
NRepr    == 3      \* distinct values of str(func)
MaxSeed  == 1      \* generation seeds handed to the constructor are 0..MaxSeed
MaxCallsLive == 3  \* register_function calls in one run of the fair specification
MaxWide  == 2      \* finite objective values of the single-producer runs are 0..MaxWide
MaxCallsReader == 2  \* register_function calls in one run next to an external reader
MaxJobs == 2      \* schedule_jobs is called with 1..MaxJobs jobs
MaxMachines == 2  \* and 1..MaxMachines machines
MaxTime == 2      \* processing times are 1..MaxTime
MaxCallsReadOnly == 3  \* register_function calls in one run with selection() statement by statement

(***************************************************************************)
(* Program constants.  float('-inf') is a value below every finite         *)
(* objective value; its negation (line 66) is above every one.             *)
(***************************************************************************)
NegInf == -1000
PosInf == 1000
NoRank == -1       \* a Function object has no rank attribute before survival

Threads == 1..NThreads
Vals    == 0..MaxVal

VARIABLES
    population,     \* self._population: sequence of object ids
    next_gen_pop,   \* self._next_gen_pop: sequence of object ids
    generation,     \* self._generation
    lock,           \* self._lock: 0 when free, else the thread holding it
    rep,            \* heap: str(f) of object f
    score,          \* heap: f.score
    rank,           \* heap: f.rank
    crowding,       \* heap: f.crowding
    pc,             \* per thread: the line it is about to execute, or "idle"
    func,           \* per thread: the argument of its register_function call
    loc_pop,        \* local `pop` of the thread inside the survival computation
    loc_survivors,  \* local `survivors` (indices into pop) of that thread
    gen0,           \* the constructor's argument `generation`
    jssp,           \* the locals of a call of JSSPEvaluation.schedule_jobs
    ncalls,         \* register_function calls made so far
    nsurvived,      \* survival computations completed so far
    naccepted,      \* candidates appended to next_gen_pop so far (line 58)
    ndupfail,       \* exceptions of the duplicate check caught so far
    nsurvfail,      \* exceptions of the survival computation caught so far
    allvalid,       \* every call so far handed over a new two-objective list
    sel,            \* per thread: the locals `funcs` and `parents` of its selection()
                    \* call, and what its last selection() call returned or raised
    ext             \* the list an external reader holds a reference to

vars == <<population, next_gen_pop, generation, lock, rep, score, rank, crowding,
          pc, func, loc_pop, loc_survivors, gen0, jssp, ncalls, nsurvived, naccepted, ndupfail,
          nsurvfail, allvalid, sel, ext>>

(***************************************************************************)
(* Score values.  The code is duck-typed: a score is None, a list of       *)
(* numbers or a numpy array of numbers.                                    *)
(***************************************************************************)
None == [kind |-> "none", v |-> <<>>]
ListScore(s) == [kind |-> "list", v |-> s]
ArrScore(s)  == [kind |-> "arr", v |-> s]
\* A list of numbers that numpy keeps as Python objects (Decimal, Fraction,
\* integers beyond 64 bits): np.array of such rows has dtype object.
ObjScore(s)  == [kind |-> "obj", v |-> s]

\* [float('-inf'), float('-inf')], lines 52 and 56
Sentinel == ListScore(<<NegInf, NegInf>>)

\* Scores an evaluator hands over: absent, a two-objective list, and the
\* duck-typed or malformed ones: a list of another length, an array.  The
\* two-objective lists are those over Vals with a positive component: one
\* that dominates the others and two that do not dominate each other.  The
\* full grid of a wider range is what the single-producer runs feed.
ValidScores ==
    {ListScore(<<x, y>>) : x \in Vals, y \in Vals} \ {ListScore(<<0, 0>>)}

ScoreInputs ==
    {None}
    \cup ValidScores
    \cup {ListScore(<<x>>) : x \in {MaxVal}}
    \cup {ArrScore(<<x, y>>) : x \in {MaxVal}, y \in {MaxVal}}

\* np.isinf(np.array(f.score)).any(), line 131
HasInf(s) == \E m \in 1..Len(s.v) : s.v[m] = NegInf \/ s.v[m] = PosInf

Min(a, b) == IF a <= b THEN a ELSE b

(***************************************************************************)
(* has_duplicate_function, lines 120-127.                                  *)
(***************************************************************************)
\* The outcomes of taking the truth value of `a == b` for two scores: "T",
\* "F", or "raise" (ValueError: the truth value of an array with more than
\* one element is ambiguous).  A comparison with a numpy array is
\* elementwise after broadcasting; arrays of two different lengths above 1
\* compare to False or raise, depending on the numpy release.
EqOutcomes(a, b) ==
    IF a.kind # "arr" /\ b.kind # "arr"
    THEN IF (a.kind = "none") = (b.kind = "none") /\ a.v = b.v THEN {"T"} ELSE {"F"}
    ELSE LET la == IF a.kind = "none" THEN 1 ELSE Len(a.v)
             lb == IF b.kind = "none" THEN 1 ELSE Len(b.v)
         IN  IF la = lb \/ la = 1 \/ lb = 1
             THEN IF la > 1 \/ lb > 1 THEN {"raise"}
                  ELSE IF a.kind # "none" /\ b.kind # "none" /\ a.v = b.v
                       THEN {"T"} ELSE {"F"}
             ELSE {"F", "raise"}

\* The loops of lines 121-126 over held[k..]: the outcomes of the call.
RECURSIVE DupFrom(_, _, _, _, _)
DupFrom(held, k, f, rp, sc) ==
    IF k > Len(held) THEN {"F"}
    ELSE IF rp[held[k]] = rp[f] THEN {"T"}
    ELSE LET E == EqOutcomes(sc[f], sc[held[k]])
         IN  (IF "T" \in E THEN {"T"} ELSE {})
             \cup (IF "raise" \in E THEN {"raise"} ELSE {})
             \cup (IF "F" \in E THEN DupFrom(held, k + 1, f, rp, sc) ELSE {})

\* Mutant of has_duplicate_function: the loop over pending (lines 124-126)
\* lost.
DuplicateInMembersOnly(f) ==
    DupFrom(population, 1, f, rep, score)

has_duplicate_function(f) ==
    DupFrom(population \o next_gen_pop, 1, f, rep, score)

(***************************************************************************)
(* The survival computation, lines 62-109.                                 *)
(***************************************************************************)
\* Mutant of Neg: the minus of line 66 lost.
NegLost(x) == x

\* Unary minus of line 66 on one component.
Neg(x) == IF x = NegInf THEN PosInf ELSE IF x = PosInf THEN NegInf ELSE 0 - x

\* Lines 65-66, F = -np.array(objs), raise: the scores of the pool do not
\* form a matrix (rows of different lengths), so that np.array or the
\* unary minus raises.
ObjMatrixRaises(pool, sc) ==
    \E i \in 1..Len(pool) :
        \/ sc[pool[i]].kind \notin {"list", "arr", "obj"}
        \/ Len(sc[pool[i]].v) # Len(sc[pool[1]].v)

\* Lines 65-66, F = -np.array(objs), for a pool whose scores form a matrix.
ObjMatrix(pool, sc) ==
    [i \in 1..Len(pool) |->
        [m \in 1..Len(sc[pool[i]].v) |-> Neg(sc[pool[i]].v[m])]]

\* A finite set of integers as the ascending sequence of its elements.
RECURSIVE Ascending(_)
Ascending(S) ==
    IF S = {} THEN <<>>
    ELSE LET x == CHOOSE y \in S : \A z \in S : y <= z
         IN  <<x>> \o Ascending(S \ {x})

\* Mutant of Dominates: smaller in every objective.
DominatesInAll(F, i, j) ==
    \A m \in 1..Len(F[i]) : F[i][m] < F[j][m]

\* pymoo's domination of row j by row i (minimisation): i is smaller in some
\* objective and larger in none.
Dominates(F, i, j) ==
    /\ \E m \in 1..Len(F[i]) : F[i][m] < F[j][m]
    /\ ~ \E m \in 1..Len(F[i]) : F[i][m] > F[j][m]

\* is_dominating[i] of pymoo's fast_non_dominated_sort.
IsDominating(F, i) == Ascending({j \in 1..Len(F) : Dominates(F, i, j)})

\* n_dominated[j] of pymoo's fast_non_dominated_sort after its first loop.
NDominated(F) ==
    [j \in 1..Len(F) |-> Cardinality({i \in 1..Len(F) : Dominates(F, i, j)})]

\* The inner loop `for j in is_dominating[i]`: <<n_dominated, next_front>>.
RECURSIVE ReleaseDominated(_, _, _, _)
ReleaseDominated(js, p, cnt, nxt) ==
    IF p > Len(js) THEN <<cnt, nxt>>
    ELSE LET j == js[p]
             c == cnt[j] - 1
         IN  ReleaseDominated(js, p + 1, [cnt EXCEPT ![j] = c],
                              IF c = 0 THEN Append(nxt, j) ELSE nxt)

\* The loop `for i in current_front`: <<n_dominated, next_front>>.
RECURSIVE NextFront(_, _, _, _, _)
NextFront(F, cur, k, cnt, nxt) ==
    IF k > Len(cur) THEN <<cnt, nxt>>
    ELSE LET r == ReleaseDominated(IsDominating(F, cur[k]), 1, cnt, nxt)
         IN  NextFront(F, cur, k + 1, r[1], r[2])

\* The loop `while n_ranked < n`: the fronts from current_front on.
RECURSIVE FrontsFrom(_, _, _, _)
FrontsFrom(F, cur, cnt, nranked) ==
    IF nranked >= Len(F) THEN <<cur>>
    ELSE LET r == NextFront(F, cur, 1, cnt, <<>>)
         IN  <<cur>> \o FrontsFrom(F, r[2], r[1], nranked + Len(r[2]))

\* pymoo's fast_non_dominated_sort: the sequence of fronts, each a sequence
\* of row indices.
fast_non_dominated_sort(F) ==
    LET cnt   == NDominated(F)
        first == Ascending({i \in 1..Len(F) : cnt[i] = 0})
    IN  FrontsFrom(F, first, cnt, Len(first))

\* Mutant of StopIfRanked: only the first front is returned.
StopAtFirstFront(fronts, k, nranked, nstop) == <<fronts[1]>>

\* The filter of NonDominatedSorting.do: fronts are kept up to the first one
\* with which at least n_stop_if_ranked rows are ranked.
RECURSIVE StopIfRanked(_, _, _, _)
StopIfRanked(fronts, k, nranked, nstop) ==
    IF k > Len(fronts) THEN <<>>
    ELSE IF nranked + Len(fronts[k]) >= nstop THEN <<fronts[k]>>
    ELSE <<fronts[k]>> \o StopIfRanked(fronts, k + 1, nranked + Len(fronts[k]), nstop)

\* Line 72: NonDominatedSorting().do(F, n_stop_if_ranked=self._pop_size)
NonDominatedSorting(F) == StopIfRanked(fast_non_dominated_sort(F), 1, 0, Capacity)

(***************************************************************************)
(* Crowding distance: get_crowding_function("cd").do(F[front, :]), lines   *)
(* 85-89 and 97-101.  A distance is a fraction <<num, den>>, den > 0, in   *)
(* lowest terms; infinity is <<1, 0>>.                                     *)
(***************************************************************************)
RECURSIVE GCD(_, _)
GCD(a, b) == IF b = 0 THEN a ELSE GCD(b, a % b)

Inf  == <<1, 0>>
Zero == <<0, 1>>
Frac(n, d) == IF n = 0 THEN Zero ELSE LET g == GCD(n, d) IN <<n \div g, d \div g>>
IsInf(c) == c[2] = 0
FracAdd(a, b) ==
    IF IsInf(a) \/ IsInf(b) THEN Inf ELSE Frac(a[1] * b[2] + b[1] * a[2], a[2] * b[2])
\* a >= b; with den = 0 for infinity the cross product orders it on top
FracGeq(a, b) == a[1] * b[2] >= b[1] * a[2]

\* pymoo's find_duplicates(F, epsilon=1e-32): a row is a duplicate when an
\* earlier row is at distance 0; rows with an infinite component are at
\* distance nan from each other and never count.
IsDuplicateRow(Ff, i) ==
    \E j \in 1..(i - 1) :
        /\ Ff[j] = Ff[i]
        /\ \A m \in 1..Len(Ff[i]) : Ff[i][m] # PosInf /\ Ff[i][m] # NegInf

\* calc_crowding_distance, one objective m, row p of the rows U (indices of
\* the unique rows of Ff): (distance to last + distance to next) / norm,
\* after a stable sort of the column; nan (norm 0, or inf / inf) counts 0.
ColumnDistance(Ff, U, m, p) ==
    LET col    == {Ff[q][m] : q \in U}
        hi     == CHOOSE x \in col : \A y \in col : x >= y
        lo     == CHOOSE x \in col : \A y \in col : x <= y
        before == {q \in U : Ff[q][m] < Ff[p][m] \/ (Ff[q][m] = Ff[p][m] /\ q < p)}
        after  == {q \in U : Ff[q][m] > Ff[p][m] \/ (Ff[q][m] = Ff[p][m] /\ q > p)}
    IN  IF hi = PosInf \/ lo = NegInf \/ hi = lo THEN Zero
        ELSE IF before = {} \/ after = {} THEN Inf
        ELSE LET prev == CHOOSE x \in {Ff[q][m] : q \in before} :
                             \A y \in {Ff[q][m] : q \in before} : x >= y
                 next == CHOOSE x \in {Ff[q][m] : q \in after} :
                             \A y \in {Ff[q][m] : q \in after} : x <= y
             IN  Frac(next - prev, hi - lo)

RECURSIVE SumColumns(_, _, _, _)
SumColumns(Ff, U, m, p) ==
    IF m = 0 THEN Zero
    ELSE FracAdd(ColumnDistance(Ff, U, m, p), SumColumns(Ff, U, m - 1, p))

\* calc_crowding_distance: the sum over the objectives, divided by n_obj.
calc_crowding_distance(Ff, U, p) ==
    LET nobj == Len(Ff[p])
        c    == SumColumns(Ff, U, nobj, p)
    IN  IF IsInf(c) THEN Inf ELSE Frac(c[1], c[2] * nobj)

\* FunctionalDiversity.do: infinity for at most two rows; otherwise the
\* crowding distance among the unique rows, and 0 for a duplicate row.
crowding_of_front(Ff) ==
    IF Len(Ff) <= 2 THEN [i \in 1..Len(Ff) |-> Inf]
    ELSE LET U == {i \in 1..Len(Ff) : ~IsDuplicateRow(Ff, i)}
         IN  [i \in 1..Len(Ff) |->
                 IF i \in U THEN calc_crowding_distance(Ff, U, i) ELSE Zero]

\* Mutant of randomized_argsort: order='ascending'.
RECURSIVE ArgsortAscending(_, _)
ArgsortAscending(cd, S) ==
    IF S = {} THEN {<<>>}
    ELSE UNION {{<<x>> \o rest : rest \in ArgsortAscending(cd, S \ {x})} :
                   x \in {y \in S : \A z \in S : FracGeq(cd[z], cd[y])}}

\* randomized_argsort(crowding_of_front, order='descending'), line 91: the
\* orders of the indices S by descending crowding; ties fall as the random
\* permutation has them.
RECURSIVE randomized_argsort(_, _)
randomized_argsort(cd, S) ==
    IF S = {} THEN {<<>>}
    ELSE UNION {{<<x>> \o rest : rest \in randomized_argsort(cd, S \ {x})} :
                   x \in {y \in S : \A z \in S : FracGeq(cd[y], cd[z])}}

\* F[front, :]
RowsOf(F, front) == [j \in 1..Len(front) |-> F[front[j]]]

\* Mutant of SaveRankCrowding: line 106 as crowding_of_front[0].
RECURSIVE SaveCrowdingOfFirst(_, _, _, _, _, _, _)
SaveCrowdingOfFirst(pool, front, cd, k, j, rk, cr) ==
    IF j > Len(front) THEN <<rk, cr>>
    ELSE SaveCrowdingOfFirst(pool, front, cd, k, j + 1,
                             [rk EXCEPT ![pool[front[j]]] = k],
                             [cr EXCEPT ![pool[front[j]]] = cd[1]])

\* Lines 104-106 for one front: rank and crowding of the objects of the
\* front, written in the order of the loop.  The result is <<rank, crowding>>.
RECURSIVE SaveRankCrowding(_, _, _, _, _, _, _)
SaveRankCrowding(pool, front, cd, k, j, rk, cr) ==
    IF j > Len(front) THEN <<rk, cr>>
    ELSE SaveRankCrowding(pool, front, cd, k, j + 1,
                          [rk EXCEPT ![pool[front[j]]] = k],
                          [cr EXCEPT ![pool[front[j]]] = cd[j]])

\* The loop of line 74 as far as the heap goes: <<rank, crowding>> after
\* fronts[k..] are processed; front k of the loop (from 0) is fronts[k + 1].
RECURSIVE SaveFronts(_, _, _, _, _, _)
SaveFronts(pool, F, fronts, k, rk, cr) ==
    IF k > Len(fronts) THEN <<rk, cr>>
    ELSE LET r == SaveRankCrowding(pool, fronts[k],
                                   crowding_of_front(RowsOf(F, fronts[k])),
                                   k - 1, 1, rk, cr)
         IN  SaveFronts(pool, F, fronts, k + 1, r[1], r[2])

\* Mutant of Survivors: the splitting front is taken whole (lines 79-92 lost).
RECURSIVE SurvivorsNoTruncation(_, _, _, _)
SurvivorsNoTruncation(F, fronts, k, surv) ==
    IF k > Len(fronts) THEN {surv}
    ELSE SurvivorsNoTruncation(F, fronts, k + 1, surv \o fronts[k])

\* Mutant of Survivors: line 92 as I[:n_remove], keeping as many as were to go.
RECURSIVE SurvivorsKeepRemoved(_, _, _, _)
SurvivorsKeepRemoved(F, fronts, k, surv) ==
    IF k > Len(fronts) THEN {surv}
    ELSE LET front == fronts[k]
             n     == Len(front)
         IN  IF Len(surv) + n > Capacity
             THEN LET n_remove == Len(surv) + n - Capacity
                      cd       == crowding_of_front(RowsOf(F, front))
                  IN  UNION {SurvivorsKeepRemoved(F, fronts, k + 1,
                                       surv \o [q \in 1..n_remove |-> front[I[q]]]) :
                                I \in randomized_argsort(cd, 1..n)}
             ELSE SurvivorsKeepRemoved(F, fronts, k + 1, surv \o front)

\* Mutant of Survivors: the fronts are walked from the last one to the first.
RECURSIVE SurvivorsFromLast(_, _, _, _)
SurvivorsFromLast(F, fronts, k, surv) ==
    IF k > Len(fronts) THEN {surv}
    ELSE LET front == fronts[Len(fronts) + 1 - k]
             n     == Len(front)
         IN  IF Len(surv) + n > Capacity
             THEN LET n_remove == Len(surv) + n - Capacity
                      cd       == crowding_of_front(RowsOf(F, front))
                  IN  UNION {SurvivorsFromLast(F, fronts, k + 1,
                                       surv \o [q \in 1..(n - n_remove) |-> front[I[q]]]) :
                                I \in randomized_argsort(cd, 1..n)}
             ELSE SurvivorsFromLast(F, fronts, k + 1, surv \o front)

\* The loop of line 74 as far as `survivors` goes (lines 76-95, 109): the
\* values `survivors` can have after fronts[k..] are processed.
RECURSIVE Survivors(_, _, _, _)
Survivors(F, fronts, k, surv) ==
    IF k > Len(fronts) THEN {surv}
    ELSE LET front == fronts[k]
             n     == Len(front)
         IN  IF Len(surv) + n > Capacity
             THEN LET n_remove == Len(surv) + n - Capacity
                      cd       == crowding_of_front(RowsOf(F, front))
                  IN  UNION {Survivors(F, fronts, k + 1,
                                       surv \o [q \in 1..(n - n_remove) |-> front[I[q]]]) :
                                I \in randomized_argsort(cd, 1..n)}
             ELSE Survivors(F, fronts, k + 1, surv \o front)

(***************************************************************************)
(* Line 91 for a given outcome of the random generator.                    *)
(* randomized_argsort draws P = np.random.permutation(n), sorts A[P]       *)
(* ascending, maps the result back through P and flips it.  The sort of an *)
(* array this short is an insertion sort, which keeps equal values in the  *)
(* order they have in A[P]; flipped, equal values come in the reverse of   *)
(* their order in P.                                                       *)
(***************************************************************************)
\* The permutations of 1..n, as np.random.permutation(n) can return them.
PermutationsOf(n) ==
    {P \in [1..n -> 1..n] : \A i, j \in 1..n : P[i] = P[j] => i = j}

\* Mutant of ArgsortGiven: equal values are kept in the order of their index,
\* whatever the permutation.
RECURSIVE ArgsortByIndex(_, _, _)
ArgsortByIndex(cd, P, K) ==
    IF K = {} THEN <<>>
    ELSE LET k == CHOOSE x \in K : \A y \in K :
                      \/ ~FracGeq(cd[y], cd[x])
                      \/ (cd[x] = cd[y] /\ x <= y)
         IN  <<k>> \o ArgsortByIndex(cd, P, K \ {k})

\* The order line 91 returns when the permutation drawn is P: the positions
\* K of P that are still to be placed, by descending crowding, the later
\* position of P first among equal values.
RECURSIVE ArgsortGiven(_, _, _)
ArgsortGiven(cd, P, K) ==
    IF K = {} THEN <<>>
    ELSE LET k == CHOOSE x \in K : \A y \in K :
                      \/ ~FracGeq(cd[P[y]], cd[P[x]])
                      \/ (cd[P[x]] = cd[P[y]] /\ x >= y)
         IN  <<P[k]>> \o ArgsortGiven(cd, P, K \ {k})

\* The loop of line 74 as far as `survivors` goes, when the permutation
\* drawn for the splitting front is P.
RECURSIVE SurvivorsGiven(_, _, _, _, _)
SurvivorsGiven(F, fronts, k, surv, P) ==
    IF k > Len(fronts) THEN surv
    ELSE LET front == fronts[k]
             n     == Len(front)
         IN  IF Len(surv) + n > Capacity
             THEN LET n_remove == Len(surv) + n - Capacity
                      cd       == crowding_of_front(RowsOf(F, front))
                      I        == ArgsortGiven(cd, P, 1..n)
                  IN  SurvivorsGiven(F, fronts, k + 1,
                                     surv \o [q \in 1..(n - n_remove) |-> front[I[q]]],
                                     P)
             ELSE SurvivorsGiven(F, fronts, k + 1, surv \o front, P)

(***************************************************************************)
(* The state after construction, lines 15-26: Population(pop_size,         *)
(* generation) with pop left None.  No candidate exists yet.  Init is the  *)
(* construction with the default generation=0, InitSeeded the one with a   *)
(* generation the caller supplies.                                         *)
(***************************************************************************)
\* a Function object has no crowding attribute before survival
NoCrowding == <<0 - 1, 1>>

\* A thread that has not called selection() yet: no locals, nothing returned.
NoSelection == [funcs |-> <<>>, parents |-> <<>>, out |-> [kind |-> "none", f |-> 0]]

\* No external reader holds a reference to a list of the population.
NoList == [kind |-> "none", items |-> <<>>]

\* The external reader holds a reference to the very list object that
\* self._population refers to: what it sees is `population`.
LiveList == [kind |-> "live", items |-> <<>>]

\* The external reader holds a reference to a list object that
\* self._population no longer refers to, with the elements s.
OwnList(s) == [kind |-> "own", items |-> s]

\* e is the reference the caller keeps to the list it has handed over as
\* `pop`: none when pop is left None (line 17), the list of members itself
\* when pop is a list (line 19).
PopulationFrom(seed, e) ==
    /\ population = <<>>
    /\ next_gen_pop = <<>>
    /\ gen0 = seed
    /\ generation = seed
    /\ lock = 0
    /\ rep = <<>>
    /\ score = <<>>
    /\ rank = <<>>
    /\ crowding = <<>>
    /\ pc = [t \in Threads |-> "idle"]
    /\ func = [t \in Threads |-> 0]
    /\ loc_pop = <<>>
    /\ loc_survivors = <<>>
    /\ ncalls = 0
    /\ nsurvived = 0
    /\ naccepted = 0
    /\ ndupfail = 0
    /\ nsurvfail = 0
    /\ allvalid = TRUE
    /\ sel = [t \in Threads |-> NoSelection]
    /\ ext = e

\* No call of JSSPEvaluation.schedule_jobs is under way.
NoSchedule ==
    [pc |-> "none", n_jobs |-> 0, n_machines |-> 0,
     machine_status |-> <<>>, job_status |-> <<>>, operation_sequence |-> <<>>,
     all_operations |-> <<>>, iterations |-> 0, makespan |-> 0, written |-> FALSE]

ConstructedFrom(seed, e) == PopulationFrom(seed, e) /\ jssp = NoSchedule

Constructed(seed) == ConstructedFrom(seed, NoList)

Init == Constructed(0)

InitSeeded == \E seed \in 0..MaxSeed : Constructed(seed)

heap == <<rep, score, rank, crowding>>
locals == <<loc_pop, loc_survivors>>
failures == <<ndupfail, nsurvfail>>
ghosts == <<gen0, jssp, ncalls, nsurvived, naccepted, failures, allvalid>>

(***************************************************************************)
(* register_function, lines 45-118.                                        *)
(***************************************************************************)
\* Lines 47-52 on object f, and where the thread goes next.
EnterRegister(t, f, sc) ==
    IF generation = 0 /\ sc[f] = None
    THEN /\ score' = sc
         /\ pc' = [pc EXCEPT ![t] = "idle"]
         /\ func' = func
    ELSE /\ score' = IF sc[f] = None THEN [sc EXCEPT ![f] = Sentinel] ELSE sc
         /\ pc' = [pc EXCEPT ![t] = "l54"]
         /\ func' = [func EXCEPT ![t] = f]

\* A producer calls register_function on a candidate an evaluator has just
\* built (a new object with representation r and score s) and runs lines
\* 47-52.  Representations only matter up to equality, so a new one is the
\* next unused one; producers are alike, so the call is made by the first
\* one that is not inside a call.
CallNew(t) ==
    /\ pc[t] = "idle"
    /\ \A u \in 1..(t - 1) : pc[u] # "idle"
    /\ ncalls < MaxCalls
    /\ \E r \in 1..NRepr, s \in ScoreInputs :
          /\ \A q \in 2..r : \E o \in 1..Len(rep) : rep[o] = q - 1
          /\ rep' = Append(rep, r)
          /\ rank' = Append(rank, NoRank)
          /\ crowding' = Append(crowding, NoCrowding)
          /\ allvalid' = (allvalid /\ s \in ValidScores)
          /\ EnterRegister(t, Len(rep) + 1, Append(score, s))
    /\ ncalls' = ncalls + 1
    /\ UNCHANGED <<population, next_gen_pop, generation, lock, locals,
                   gen0, jssp, sel, ext, nsurvived, naccepted, failures>>

\* A producer calls register_function on an object that exists already
\* (one it has registered before) and runs lines 47-52.
CallAgain(t) ==
    /\ pc[t] = "idle"
    /\ \A u \in 1..(t - 1) : pc[u] # "idle"
    /\ ncalls < MaxCalls
    /\ \E f \in 1..Len(rep) : EnterRegister(t, f, score)
    /\ ncalls' = ncalls + 1
    /\ allvalid' = FALSE
    /\ UNCHANGED <<population, next_gen_pop, generation, lock, rep, rank, crowding,
                   locals, gen0, jssp, sel, ext, nsurvived, naccepted, failures>>

\* Mutant of RegisterBody: no finally clause, so that the return of line 116
\* leaves the lock held.
RegisterBodyNoFinally(t) ==
    /\ \E d \in has_duplicate_function(func[t]) :
          IF d = "raise"
          THEN /\ ndupfail' = ndupfail + 1
               /\ pc' = [pc EXCEPT ![t] = "idle"]
               /\ UNCHANGED <<score, next_gen_pop, naccepted>>
          ELSE /\ score' = IF d = "T" THEN [score EXCEPT ![func[t]] = Sentinel]
                           ELSE score
               /\ next_gen_pop' = Append(next_gen_pop, func[t])
               /\ pc' = [pc EXCEPT ![t] = "l61"]
               /\ ndupfail' = ndupfail
               /\ naccepted' = naccepted + 1
    /\ UNCHANGED <<population, generation, rep, rank, crowding, func, locals,
                   gen0, jssp, sel, ext, ncalls, nsurvived, nsurvfail, allvalid>>

\* Mutant of RegisterBody: a duplicate is dropped instead of appended.
RegisterBodyDropsDuplicate(t) ==
    /\ \E d \in has_duplicate_function(func[t]) :
          IF d = "raise"
          THEN /\ ndupfail' = ndupfail + 1
               /\ pc' = [pc EXCEPT ![t] = "l117"]
               /\ UNCHANGED <<score, next_gen_pop, naccepted>>
          ELSE IF d = "T"
          THEN /\ score' = [score EXCEPT ![func[t]] = Sentinel]
               /\ pc' = [pc EXCEPT ![t] = "l117"]
               /\ UNCHANGED <<next_gen_pop, ndupfail, naccepted>>
          ELSE /\ next_gen_pop' = Append(next_gen_pop, func[t])
               /\ pc' = [pc EXCEPT ![t] = "l61"]
               /\ naccepted' = naccepted + 1
               /\ UNCHANGED <<score, ndupfail>>
    /\ UNCHANGED <<population, generation, rep, rank, crowding, func, locals,
                   gen0, jssp, sel, ext, ncalls, nsurvived, nsurvfail, allvalid>>

\* Mutant of RegisterBody: the candidate is merged into members at once.
RegisterBodyIntoMembers(t) ==
    /\ \E d \in has_duplicate_function(func[t]) :
          IF d = "raise"
          THEN /\ ndupfail' = ndupfail + 1
               /\ pc' = [pc EXCEPT ![t] = "l117"]
               /\ UNCHANGED <<score, population, naccepted>>
          ELSE /\ score' = IF d = "T" THEN [score EXCEPT ![func[t]] = Sentinel]
                           ELSE score
               /\ population' = Append(population, func[t])
               /\ pc' = [pc EXCEPT ![t] = "l61"]
               /\ ndupfail' = ndupfail
               /\ naccepted' = naccepted + 1
    /\ UNCHANGED <<next_gen_pop, generation, rep, rank, crowding, func, locals,
                   gen0, jssp, sel, ext, ncalls, nsurvived, nsurvfail, allvalid>>

\* Lines 55-58: the duplicate check, the sentinel for a duplicate, the
\* append.  An exception of the check is caught at line 115 and the thread
\* goes on to the finally clause.
RegisterBody(t) ==
    /\ \E d \in has_duplicate_function(func[t]) :
          IF d = "raise"
          THEN /\ ndupfail' = ndupfail + 1
               /\ pc' = [pc EXCEPT ![t] = "l117"]
               /\ UNCHANGED <<score, next_gen_pop, naccepted>>
          ELSE /\ score' = IF d = "T" THEN [score EXCEPT ![func[t]] = Sentinel]
                           ELSE score
               /\ next_gen_pop' = Append(next_gen_pop, func[t])
               /\ pc' = [pc EXCEPT ![t] = "l61"]
               /\ ndupfail' = ndupfail
               /\ naccepted' = naccepted + 1
    /\ UNCHANGED <<population, generation, rep, rank, crowding, func, locals,
                   gen0, jssp, sel, ext, ncalls, nsurvived, nsurvfail, allvalid>>

\* Mutant of RegisterToNextGen: the lock is taken without waiting for it.
RegisterWithoutAcquire(t) ==
    /\ pc[t] = "l54"
    /\ lock' = t
    /\ RegisterBody(t)

\* Lines 54-58: self._lock.acquire(), which waits for the lock to be free,
\* then lines 55-58.  (Between the acquire and line 58 no other thread can
\* write what these lines read.)
RegisterToNextGen(t) ==
    /\ pc[t] = "l54"
    /\ lock = 0
    /\ lock' = t
    /\ RegisterBody(t)

\* Mutant of ReachedPopSize: = for >=.
ReachedPopSizeExact == Len(next_gen_pop) = Capacity

\* Mutant of ReachedPopSize: one candidate too early.
ReachedPopSizeEarly == Len(next_gen_pop) >= Capacity - 1

\* Mutant of ReachedPopSize: > for >=.
ReachedPopSizeStrict == Len(next_gen_pop) > Capacity

\* Line 61: len(self._next_gen_pop) >= self._pop_size
ReachedPopSize == Len(next_gen_pop) >= Capacity

\* Lines 85-101 raise on a front: F has dtype object when a score of the
\* pool holds Python objects, and for a front of more than two rows pymoo's
\* calc_crowding_distance takes differences with float infinity and np.isnan
\* of the rows, which numpy does not do on dtype object (TypeError).  A front
\* of at most two rows gets infinity without any arithmetic.
CrowdingRaises(pool, sc, front) ==
    /\ Len(front) > 2
    /\ \E i \in 1..Len(pool) : sc[pool[i]].kind = "obj"

\* Mutant of Survival: a failed survival computation empties pending.
SurvivalClearsOnFailure(t) ==
    /\ pc[t] = "l61"
    /\ IF ~ReachedPopSize
       THEN /\ pc' = [pc EXCEPT ![t] = "l117"]
            /\ UNCHANGED <<rank, crowding, locals, nsurvfail, next_gen_pop>>
       ELSE LET pool == population \o next_gen_pop
            IN  IF ObjMatrixRaises(pool, score)
                THEN /\ nsurvfail' = nsurvfail + 1
                     /\ pc' = [pc EXCEPT ![t] = "l117"]
                     /\ next_gen_pop' = <<>>
                     /\ UNCHANGED <<rank, crowding, locals>>
                ELSE LET F      == ObjMatrix(pool, score)
                         fronts == NonDominatedSorting(F)
                         saved  == SaveFronts(pool, F, fronts, 1, rank, crowding)
                     IN  /\ rank' = saved[1]
                         /\ crowding' = saved[2]
                         /\ loc_pop' = pool
                         /\ loc_survivors' \in Survivors(F, fronts, 1, <<>>)
                         /\ pc' = [pc EXCEPT ![t] = "l111"]
                         /\ nsurvfail' = nsurvfail
                         /\ next_gen_pop' = next_gen_pop
    /\ UNCHANGED <<population, generation, lock, rep, score, func,
                   gen0, jssp, sel, ext, ncalls, nsurvived, naccepted, ndupfail, allvalid>>

\* Lines 61-109: nothing below pop_size candidates in next_gen; otherwise
\* the pool, the objective matrix, the fronts, rank and crowding of every
\* front and the survivors.  An exception is caught at line 115: of line
\* 66 before the loop, or of the crowding computation of a front inside the
\* loop, after lines 104-106 have run for the fronts before it.
Survival(t) ==
    /\ pc[t] = "l61"
    /\ IF ~ReachedPopSize
       THEN /\ pc' = [pc EXCEPT ![t] = "l117"]
            /\ UNCHANGED <<rank, crowding, locals, nsurvfail>>
       ELSE LET pool == population \o next_gen_pop
            IN  IF ObjMatrixRaises(pool, score)
                THEN /\ nsurvfail' = nsurvfail + 1
                     /\ pc' = [pc EXCEPT ![t] = "l117"]
                     /\ UNCHANGED <<rank, crowding, locals>>
                ELSE LET F      == ObjMatrix(pool, score)
                         fronts == NonDominatedSorting(F)
                         bad    == {k \in 1..Len(fronts) :
                                       CrowdingRaises(pool, score, fronts[k])}
                     IN  IF bad # {}
                         THEN LET k     == CHOOSE x \in bad : \A y \in bad : x <= y
                                  saved == SaveFronts(pool, F, SubSeq(fronts, 1, k - 1),
                                                      1, rank, crowding)
                              IN  /\ rank' = saved[1]
                                  /\ crowding' = saved[2]
                                  /\ nsurvfail' = nsurvfail + 1
                                  /\ pc' = [pc EXCEPT ![t] = "l117"]
                                  /\ UNCHANGED locals
                         ELSE LET saved == SaveFronts(pool, F, fronts, 1, rank, crowding)
                              IN  /\ rank' = saved[1]
                                  /\ crowding' = saved[2]
                                  /\ loc_pop' = pool
                                  /\ loc_survivors' \in Survivors(F, fronts, 1, <<>>)
                                  /\ pc' = [pc EXCEPT ![t] = "l111"]
                                  /\ nsurvfail' = nsurvfail
    /\ UNCHANGED <<population, next_gen_pop, generation, lock, rep, score, func,
                   gen0, jssp, sel, ext, ncalls, nsurvived, naccepted, ndupfail, allvalid>>

\* Line 111: self._population = [pop[i] for i in survivors].  The attribute
\* is bound to a new list object; a reference an external reader holds to
\* the list it was bound to goes on referring to that list, with its elements.
SetPopulation(t) ==
    /\ pc[t] = "l111"
    /\ population' = [q \in 1..Len(loc_survivors) |-> loc_pop[loc_survivors[q]]]
    /\ ext' = IF ext.kind = "live" THEN OwnList(population) ELSE ext
    /\ pc' = [pc EXCEPT ![t] = "l112"]
    /\ UNCHANGED <<next_gen_pop, generation, lock, heap, func, locals, ghosts, sel>>

\* Mutant of ClearNextGen: line 112 lost.
ClearNextGenForgotten(t) ==
    /\ pc[t] = "l112"
    /\ pc' = [pc EXCEPT ![t] = "l113"]
    /\ UNCHANGED <<population, next_gen_pop, generation, lock, heap, func, locals,
                   ghosts, sel, ext>>

\* Line 112: self._next_gen_pop = []
ClearNextGen(t) ==
    /\ pc[t] = "l112"
    /\ next_gen_pop' = <<>>
    /\ pc' = [pc EXCEPT ![t] = "l113"]
    /\ UNCHANGED <<population, generation, lock, heap, func, locals, ghosts, sel, ext>>

\* Mutant of IncGeneration: line 113 lost.
IncGenerationForgotten(t) ==
    /\ pc[t] = "l113"
    /\ nsurvived' = nsurvived + 1
    /\ pc' = [pc EXCEPT ![t] = "l117"]
    /\ UNCHANGED <<population, next_gen_pop, generation, lock, heap, func, locals,
                   gen0, jssp, sel, ext, ncalls, naccepted, failures, allvalid>>

\* Line 113: self._generation += 1, the end of the survival computation
IncGeneration(t) ==
    /\ pc[t] = "l113"
    /\ generation' = generation + 1
    /\ nsurvived' = nsurvived + 1
    /\ pc' = [pc EXCEPT ![t] = "l117"]
    /\ UNCHANGED <<population, next_gen_pop, lock, heap, func, locals,
                   gen0, jssp, sel, ext, ncalls, naccepted, failures, allvalid>>

\* Mutant of Release: the call returns with the lock held (line 118 lost).
ReturnWithoutRelease(t) ==
    /\ pc[t] = "l117"
    /\ pc' = [pc EXCEPT ![t] = "idle"]
    /\ func' = [func EXCEPT ![t] = 0]
    /\ loc_pop' = <<>>
    /\ loc_survivors' = <<>>
    /\ UNCHANGED <<population, next_gen_pop, generation, lock, heap, ghosts, sel, ext>>

\* Lines 117-118: finally self._lock.release(), and the call returns
Release(t) ==
    /\ pc[t] = "l117"
    /\ lock' = 0
    /\ pc' = [pc EXCEPT ![t] = "idle"]
    /\ func' = [func EXCEPT ![t] = 0]
    /\ loc_pop' = <<>>
    /\ loc_survivors' = <<>>
    /\ UNCHANGED <<population, next_gen_pop, generation, heap, ghosts, sel, ext>>

(***************************************************************************)
(* selection, lines 129-143.                                               *)
(***************************************************************************)
\* Line 131: the positions of population whose score has no infinite component
ValidPositions == {i \in 1..Len(population) : ~HasInf(score[population[i]])}

\* Lines 134-141: the winner of the tournament between the objects a (drawn
\* first) and b (drawn second)
Tournament(a, b) ==
    IF rank[a] < rank[b] THEN a
    ELSE IF rank[a] > rank[b] THEN b
    ELSE IF ~FracGeq(crowding[b], crowding[a]) THEN a
    ELSE b

\* What a call of selection() returns or raises in the current state.
SelectionOutcomes ==
    IF Cardinality(ValidPositions) > 1
    THEN {[kind |-> "ok", f |-> Tournament(population[i], population[j])] :
            <<i, j>> \in {p \in ValidPositions \X ValidPositions : p[1] # p[2]}}
    ELSE IF Cardinality(ValidPositions) = 1
    THEN {[kind |-> "ok", f |-> population[i]] : i \in ValidPositions}
    ELSE {[kind |-> "IndexError", f |-> 0]}

\* A thread that is not inside register_function calls selection(), which
\* takes no lock and writes nothing: the call returns or raises one of
\* SelectionOutcomes and leaves every variable as it is.
Selection(t) ==
    /\ pc[t] = "idle"
    /\ SelectionOutcomes # {}
    /\ UNCHANGED vars

Next ==
    \E t \in Threads :
        \/ CallNew(t)
        \/ CallAgain(t)
        \/ RegisterToNextGen(t)
        \/ Survival(t)
        \/ SetPopulation(t)
        \/ ClearNextGen(t)
        \/ IncGeneration(t)
        \/ Release(t)
        \/ Selection(t)

Spec == Init /\ [][Next]_vars

\* The same program constructed with a generation seed.
SpecSeeded == InitSeeded /\ [][Next]_vars

\* Fair scheduling: a thread inside the critical section goes on running,
\* and a thread waiting for the lock gets it if it is free again and again.
\* Liveness is checked on runs of at most MaxCallsLive calls.
NextLive == Next /\ ncalls' <= MaxCallsLive

\* The steps after the survival computation, up to the release of the lock.
InsideStep(t) ==
    \/ SetPopulation(t)
    \/ ClearNextGen(t)
    \/ IncGeneration(t)
    \/ Release(t)

\* Survival(t) is enabled exactly when pc[t] = "l61" and every step of it
\* leaves "l61": its weak fairness is that the thread does not stay there.
SurvivalEnabled(t) == pc[t] = "l61"

SpecFair ==
    /\ Init
    /\ [][NextLive]_vars
    /\ \A t \in Threads :
          /\ WF_vars(InsideStep(t))
          /\ []<>(~SurvivalEnabled(t))
          /\ SF_vars(RegisterToNextGen(t))

(***************************************************************************)
(* Lines 54-58 statement by statement.  RegisterToNextGen takes them as    *)
(* one step, which the lock allows; here every statement is a step of its  *)
(* own, so that what the lock is for can be checked.  The result of the    *)
(* duplicate check is kept in the position of the thread: "l56" after     *)
(* True, "l58" after False.                                                *)
(***************************************************************************)
\* Mutant of Acquire: the thread goes on without waiting for the lock.
AcquireWithoutWaiting(t) ==
    /\ pc[t] = "l54"
    /\ lock' = t
    /\ pc' = [pc EXCEPT ![t] = "l55"]
    /\ UNCHANGED <<population, next_gen_pop, generation, heap, func, locals, ghosts, sel, ext>>

\* Line 54: self._lock.acquire()
Acquire(t) ==
    /\ pc[t] = "l54"
    /\ lock = 0
    /\ lock' = t
    /\ pc' = [pc EXCEPT ![t] = "l55"]
    /\ UNCHANGED <<population, next_gen_pop, generation, heap, func, locals, ghosts, sel, ext>>

\* Line 55: if self.has_duplicate_function(func)
CheckDuplicate(t) ==
    /\ pc[t] = "l55"
    /\ \E d \in has_duplicate_function(func[t]) :
          /\ pc' = [pc EXCEPT ![t] = IF d = "raise" THEN "l117"
                                     ELSE IF d = "T" THEN "l56" ELSE "l58"]
          /\ ndupfail' = IF d = "raise" THEN ndupfail + 1 ELSE ndupfail
    /\ UNCHANGED <<population, next_gen_pop, generation, lock, heap, func, locals,
                   gen0, jssp, sel, ext, ncalls, nsurvived, naccepted, nsurvfail, allvalid>>

\* Line 56: func.score = [float('-inf'), float('-inf')]
MarkDuplicate(t) ==
    /\ pc[t] = "l56"
    /\ score' = [score EXCEPT ![func[t]] = Sentinel]
    /\ pc' = [pc EXCEPT ![t] = "l58"]
    /\ UNCHANGED <<population, next_gen_pop, generation, lock, rep, rank, crowding,
                   func, locals, ghosts, sel, ext>>

\* Line 58: self._next_gen_pop.append(func)
AppendNextGen(t) ==
    /\ pc[t] = "l58"
    /\ next_gen_pop' = Append(next_gen_pop, func[t])
    /\ pc' = [pc EXCEPT ![t] = "l61"]
    /\ naccepted' = naccepted + 1
    /\ UNCHANGED <<population, generation, lock, heap, func, locals,
                   gen0, jssp, ncalls, nsurvived, failures, allvalid, sel, ext>>

\* The program with lines 54-58 statement by statement, on runs of at most
\* MaxCallsLive calls.
NextByStatement ==
    /\ \E t \in Threads :
          \/ CallNew(t)
          \/ CallAgain(t)
          \/ Acquire(t)
          \/ CheckDuplicate(t)
          \/ MarkDuplicate(t)
          \/ AppendNextGen(t)
          \/ Survival(t)
          \/ SetPopulation(t)
          \/ ClearNextGen(t)
          \/ IncGeneration(t)
          \/ Release(t)
          \/ Selection(t)
    /\ ncalls' <= MaxCallsLive

SpecByStatement == Init /\ [][NextByStatement]_vars

(***************************************************************************)
(* One producer registering new candidates one call after the other, each  *)
(* with a text of its own and a two-objective score over the wider range   *)
(* 0..MaxWide (or an absent score): the runs on which what the survival    *)
(* computation computes is checked.                                        *)
(***************************************************************************)
WideScores == {ListScore(<<x, y>>) : x \in 0..MaxWide, y \in 0..MaxWide}

CallWide(t) ==
    /\ \A u \in Threads : pc[u] = "idle"
    /\ \A u \in 1..(t - 1) : pc[u] # "idle"
    /\ ncalls < MaxCalls
    /\ \E s \in {None} \cup WideScores :
          /\ rep' = Append(rep, Len(rep) + 1)
          /\ rank' = Append(rank, NoRank)
          /\ crowding' = Append(crowding, NoCrowding)
          /\ allvalid' = (allvalid /\ s # None)
          /\ EnterRegister(t, Len(rep) + 1, Append(score, s))
    /\ ncalls' = ncalls + 1
    /\ UNCHANGED <<population, next_gen_pop, generation, lock, locals,
                   gen0, jssp, sel, ext, nsurvived, naccepted, failures>>

NextWide ==
    \E t \in Threads :
        \/ CallWide(t)
        \/ RegisterToNextGen(t)
        \/ Survival(t)
        \/ SetPopulation(t)
        \/ ClearNextGen(t)
        \/ IncGeneration(t)
        \/ Release(t)
        \/ Selection(t)

SpecWide == Init /\ [][NextWide]_vars

\* The same runs on candidates whose scores hold Python objects.
ObjectScores == {ObjScore(s.v) : s \in WideScores}

CallObject(t) ==
    /\ \A u \in Threads : pc[u] = "idle"
    /\ \A u \in 1..(t - 1) : pc[u] # "idle"
    /\ ncalls < MaxCalls
    /\ \E s \in {None} \cup ObjectScores :
          /\ rep' = Append(rep, Len(rep) + 1)
          /\ rank' = Append(rank, NoRank)
          /\ crowding' = Append(crowding, NoCrowding)
          /\ allvalid' = FALSE
          /\ EnterRegister(t, Len(rep) + 1, Append(score, s))
    /\ ncalls' = ncalls + 1
    /\ UNCHANGED <<population, next_gen_pop, generation, lock, locals,
                   gen0, jssp, sel, ext, nsurvived, naccepted, failures>>

NextObject ==
    \E t \in Threads :
        \/ CallObject(t)
        \/ RegisterToNextGen(t)
        \/ Survival(t)
        \/ SetPopulation(t)
        \/ ClearNextGen(t)
        \/ IncGeneration(t)
        \/ Release(t)

SpecObject == Init /\ [][NextObject]_vars

(***************************************************************************)
(* selection(), lines 129-143, statement by statement.  The method takes   *)
(* no lock, so its statements interleave with the statements of the        *)
(* register_function calls of other threads.  `funcs` and `parents` are    *)
(* locals of the call; a position "s<n>" of a thread is line n of the      *)
(* method.  What the call returned or raised stays in sel[t].out, with the *)
(* locals it had, until the thread calls selection() again.                *)
(***************************************************************************)
\* The scores of the candidates of the runs on which selection() is followed
\* statement by statement.
SelScores ==
    {ListScore(<<2, 0>>), ListScore(<<0, 2>>), ListScore(<<3, 1>>), ListScore(<<3, 3>>)}

\* A producer calls register_function on a new candidate with a text of its
\* own and one of SelScores, and runs lines 47-52.
CallPick(t) ==
    /\ pc[t] = "idle"
    /\ \A u \in 1..(t - 1) : pc[u] # "idle"
    /\ ncalls < MaxCalls
    /\ \E s \in SelScores :
          /\ rep' = Append(rep, Len(rep) + 1)
          /\ rank' = Append(rank, NoRank)
          /\ crowding' = Append(crowding, NoCrowding)
          /\ allvalid' = allvalid
          /\ EnterRegister(t, Len(rep) + 1, Append(score, s))
    /\ ncalls' = ncalls + 1
    /\ UNCHANGED <<population, next_gen_pop, generation, lock, locals,
                   gen0, jssp, sel, ext, nsurvived, naccepted, failures>>

\* Mutant of ValidMembers: the filter of line 131 lost.
AllMembers == population

\* Line 131: [f for f in self._population if not np.isinf(np.array(f.score)).any()]
ValidMembers == SelectSeq(population, LAMBDA o : ~HasInf(score[o]))

\* selection() returns the object o, or raises: the outcome is kept.
Returns(t, o) ==
    /\ sel' = [sel EXCEPT ![t].out = o]
    /\ pc' = [pc EXCEPT ![t] = "idle"]

Ok(o) == [kind |-> "ok", f |-> o]
IndexError == [kind |-> "IndexError", f |-> 0]

\* Mutant of SelectFilter: the filter of line 131 is applied to members in
\* place.
SelectFilterPrunes(t) ==
    /\ pc[t] = "idle"
    /\ \A u \in 1..(t - 1) : pc[u] # "idle"
    /\ sel' = [sel EXCEPT ![t] = [funcs |-> ValidMembers, parents |-> <<>>,
                                  out |-> [kind |-> "none", f |-> 0]]]
    /\ population' = ValidMembers
    /\ pc' = [pc EXCEPT ![t] = "s132"]
    /\ UNCHANGED <<next_gen_pop, generation, lock, heap, func, locals, ghosts, ext>>

\* A thread calls selection() and runs line 131.
SelectFilter(t) ==
    /\ pc[t] = "idle"
    /\ \A u \in 1..(t - 1) : pc[u] # "idle"
    /\ sel' = [sel EXCEPT ![t] = [funcs |-> ValidMembers, parents |-> <<>>,
                                  out |-> [kind |-> "none", f |-> 0]]]
    /\ pc' = [pc EXCEPT ![t] = "s132"]
    /\ UNCHANGED <<population, next_gen_pop, generation, lock, heap, func, locals,
                   ghosts, ext>>

\* Lines 132-133: parents = np.random.choice(funcs, size=2, replace=False),
\* two different positions of funcs in the order they are drawn.
SelectDraw(t) ==
    /\ pc[t] = "s132"
    /\ Len(sel[t].funcs) > 1
    /\ \E i, j \in 1..Len(sel[t].funcs) :
          /\ i # j
          /\ sel' = [sel EXCEPT ![t].parents = <<sel[t].funcs[i], sel[t].funcs[j]>>]
    /\ pc' = [pc EXCEPT ![t] = "s134"]
    /\ UNCHANGED <<population, next_gen_pop, generation, lock, heap, func, locals,
                   ghosts, ext>>

\* Lines 142-143: return funcs[0], an IndexError when funcs is empty.
SelectOnly(t) ==
    /\ pc[t] = "s132"
    /\ Len(sel[t].funcs) <= 1
    /\ Returns(t, IF Len(sel[t].funcs) = 1 THEN Ok(sel[t].funcs[1]) ELSE IndexError)
    /\ UNCHANGED <<population, next_gen_pop, generation, lock, heap, func, locals,
                   ghosts, ext>>

\* Lines 134-135: if parents[0].rank < parents[1].rank: return parents[0]
SelectRankLess(t) ==
    /\ pc[t] = "s134"
    /\ IF rank[sel[t].parents[1]] < rank[sel[t].parents[2]]
       THEN Returns(t, Ok(sel[t].parents[1]))
       ELSE pc' = [pc EXCEPT ![t] = "s136"] /\ sel' = sel
    /\ UNCHANGED <<population, next_gen_pop, generation, lock, heap, func, locals,
                   ghosts, ext>>

\* Lines 136-137: elif parents[0].rank > parents[1].rank: return parents[1]
SelectRankMore(t) ==
    /\ pc[t] = "s136"
    /\ IF rank[sel[t].parents[1]] > rank[sel[t].parents[2]]
       THEN Returns(t, Ok(sel[t].parents[2]))
       ELSE pc' = [pc EXCEPT ![t] = "s138"] /\ sel' = sel
    /\ UNCHANGED <<population, next_gen_pop, generation, lock, heap, func, locals,
                   ghosts, ext>>

\* Lines 138-141: elif parents[0].crowding > parents[1].crowding: return
\* parents[0]; else: return parents[1]
SelectCrowding(t) ==
    /\ pc[t] = "s138"
    /\ Returns(t, IF ~FracGeq(crowding[sel[t].parents[2]], crowding[sel[t].parents[1]])
                  THEN Ok(sel[t].parents[1])
                  ELSE Ok(sel[t].parents[2]))
    /\ UNCHANGED <<population, next_gen_pop, generation, lock, heap, func, locals,
                   ghosts, ext>>

NextSelect ==
    \E t \in Threads :
        \/ CallPick(t)
        \/ RegisterToNextGen(t)
        \/ Survival(t)
        \/ SetPopulation(t)
        \/ ClearNextGen(t)
        \/ IncGeneration(t)
        \/ Release(t)
        \/ SelectFilter(t)
        \/ SelectDraw(t)
        \/ SelectOnly(t)
        \/ SelectRankLess(t)
        \/ SelectRankMore(t)
        \/ SelectCrowding(t)

SpecSelect == Init /\ [][NextSelect]_vars

\* selection() and has_duplicate_function() as steps of their own: lines
\* 54-58 and lines 131-143 statement by statement, on runs of at most
\* MaxCallsReadOnly calls of register_function with the scores an evaluator
\* can hand over.
NextReadOnly ==
    /\ \E t \in Threads :
          \/ CallNew(t)
          \/ Acquire(t)
          \/ CheckDuplicate(t)
          \/ MarkDuplicate(t)
          \/ AppendNextGen(t)
          \/ Survival(t)
          \/ SetPopulation(t)
          \/ ClearNextGen(t)
          \/ IncGeneration(t)
          \/ Release(t)
          \/ SelectFilter(t)
          \/ SelectDraw(t)
          \/ SelectOnly(t)
          \/ SelectRankLess(t)
          \/ SelectRankMore(t)
          \/ SelectCrowding(t)
    /\ ncalls' <= MaxCallsReadOnly

SpecReadOnly == Init /\ [][NextReadOnly]_vars

(***************************************************************************)
(* An external reader of members.  The reader has got a list from the      *)
(* population: the one it passed to the constructor as `pop` (an empty     *)
(* list here), or the value of the `population` property (lines 37-39).    *)
(* It keeps the reference and changes the list as Python lists can be      *)
(* changed.  A change of a list that self._population refers to is a       *)
(* change of `population`.                                                 *)
(***************************************************************************)
\* The elements of the list the reader holds.
View == IF ext.kind = "live" THEN population ELSE ext.items

\* The reader's list after a change that makes it the sequence s.
ReaderListBecomes(s) ==
    IF ext.kind = "live"
    THEN population' = s /\ ext' = ext
    ELSE population' = population /\ ext' = OwnList(s)

\* Lines 37-39: the reader reads the property `population`, which returns
\* self._population, and keeps the reference.
ReadPopulation ==
    /\ ext.kind # "live"
    /\ ext' = LiveList
    /\ UNCHANGED <<population, next_gen_pop, generation, lock, heap, pc, func,
                   locals, ghosts, sel>>

\* The reader appends a candidate it knows to its list.
ReaderAppend ==
    /\ ext.kind # "none"
    /\ Len(View) <= Capacity
    /\ \E o \in 1..Len(rep) : ReaderListBecomes(Append(View, o))
    /\ UNCHANGED <<next_gen_pop, generation, lock, heap, pc, func, locals, ghosts, sel>>

\* The reader removes the last element of its list.
ReaderRemove ==
    /\ ext.kind # "none"
    /\ Len(View) > 0
    /\ ReaderListBecomes(SubSeq(View, 1, Len(View) - 1))
    /\ UNCHANGED <<next_gen_pop, generation, lock, heap, pc, func, locals, ghosts, sel>>

\* The reader replaces an element of its list by a candidate it knows.
ReaderReplace ==
    /\ ext.kind # "none"
    /\ \E i \in 1..Len(View), o \in 1..Len(rep) :
          /\ View[i] # o
          /\ ReaderListBecomes([View EXCEPT ![i] = o])
    /\ UNCHANGED <<next_gen_pop, generation, lock, heap, pc, func, locals, ghosts, sel>>

\* The population constructed with an empty list the caller keeps, or with
\* pop left None.
InitWithList == \E e \in {NoList, LiveList} : ConstructedFrom(0, e)

\* Registrations of new candidates next to the reader, on runs of at most
\* MaxCallsReader calls.
NextWithReader ==
    /\ \/ \E t \in Threads :
             \/ CallPick(t)
             \/ RegisterToNextGen(t)
             \/ Survival(t)
             \/ SetPopulation(t)
             \/ ClearNextGen(t)
             \/ IncGeneration(t)
             \/ Release(t)
       \/ ReadPopulation
       \/ ReaderAppend
       \/ ReaderRemove
       \/ ReaderReplace
    /\ ncalls' <= MaxCallsReader

SpecWithReader == InitWithList /\ [][NextWithReader]_vars

(***************************************************************************)
(* Properties.                                                             *)
(***************************************************************************)
\* The lines of register_function a thread executes holding the lock.
InCS == {"l61", "l111", "l112", "l113", "l117"}

NobodyInCS == \A t \in Threads : pc[t] \notin InCS

C2_MutualExclusion ==
    \A t \in Threads :
        pc[t] \in InCS =>
            /\ lock = t
            /\ \A u \in Threads : pc[u] \in InCS => u = t

\* C2 witness: one thread is in the survival computation while another waits
\* at the acquire.
C2_Witness ==
    \E t, u \in Threads : pc[t] = "l111" /\ pc[u] = "l54" /\ lock = t

\* C3: a thread that has returned from register_function, or has not
\* acquired the lock yet, does not hold it: the lock is held only by a
\* thread inside the critical section, on every exit path.
C3_LockReleasedOnReturn ==
    \A t \in Threads : pc[t] \notin InCS => lock # t

\* C3 witness: all calls have returned, one after a caught exception of the
\* duplicate check, one after a caught exception of the survival computation,
\* and the lock is free.
C3_Witness ==
    /\ \A t \in Threads : pc[t] = "idle"
    /\ lock = 0
    /\ ndupfail >= 1
    /\ nsurvfail >= 1

\* C4: under fair scheduling every register_function call returns.
C4_EveryCallReturns ==
    \A t \in Threads : (pc[t] # "idle") ~> (pc[t] = "idle")

\* C4 witness: a producer waits for the lock while another one, inside the
\* critical section, has caught an exception.
C4_Witness ==
    \E t, u \in Threads :
        pc[t] = "l54" /\ pc[u] = "l117" /\ lock = u /\ ndupfail + nsurvfail >= 1

\* C5: once Capacity calls, each with a new valid candidate, have all
\* returned, exactly one survival computation has run and none has failed,
\* the members are the Capacity candidates, each once, pending is empty and
\* generation has advanced by one.
C5_OneSurvivalPerBatch ==
    (allvalid /\ ncalls = Capacity /\ \A t \in Threads : pc[t] = "idle") =>
        /\ nsurvived = 1
        /\ nsurvfail = 0
        /\ ndupfail = 0
        /\ Len(population) = Capacity
        /\ \A o \in 1..Capacity : Cardinality({i \in 1..Len(population) : population[i] = o}) = 1
        /\ next_gen_pop = <<>>
        /\ generation = gen0 + 1

\* C5 witness: Capacity unique valid candidates have been registered and all
\* calls have returned.
C5_Witness ==
    /\ allvalid
    /\ ncalls = Capacity
    /\ \A t \in Threads : pc[t] = "idle"
    /\ \A o \in 1..Len(score) : ~HasInf(score[o])
    /\ generation = gen0 + 1

C7_GenerationCounts ==
    /\ generation = gen0
    /\ [][IF \E t \in Threads : pc[t] = "l113" /\ pc'[t] # "l113"
          THEN generation' = generation + 1
          ELSE generation' = generation]_vars

\* C7 witness: from a seed above 0, one survival computation has completed
\* and a later one has failed.
C7_Witness ==
    /\ gen0 > 0
    /\ generation = gen0 + 1
    /\ nsurvfail >= 1

\* C8: once the first survival computation has completed, len(members) is
\* the capacity.
C8_FullAfterFirstSurvival ==
    generation > gen0 => Len(population) = Capacity

\* C8 witness: after the second survival computation, which dropped
\* candidates of the pool.
C8_Witness ==
    /\ generation = gen0 + 2
    /\ Len(population) = Capacity
    /\ NobodyInCS

\* Whether the sequence s has no value twice.
Injective(s) == \A i, j \in 1..Len(s) : s[i] = s[j] => i = j

\* C9: the survivors of a successful survival computation are pairwise
\* distinct positions of the pool members + pending, exactly
\* min(capacity, len(pool)) of them, and the new members are the pool's
\* candidates at these positions.
C9_SurvivorsOfPool ==
    \A t \in Threads :
        /\ pc[t] = "l111" =>
              /\ loc_pop = population \o next_gen_pop
              /\ \A q \in 1..Len(loc_survivors) : loc_survivors[q] \in 1..Len(loc_pop)
              /\ Injective(loc_survivors)
              /\ Len(loc_survivors) = Min(Capacity, Len(loc_pop))
        /\ pc[t] = "l112" =>
              /\ Len(population) = Min(Capacity, Len(loc_pop))
              /\ Injective(loc_survivors)
              /\ \A q \in 1..Len(population) :
                    /\ loc_survivors[q] \in 1..Len(loc_pop)
                    /\ population[q] = loc_pop[loc_survivors[q]]

\* C9 witness: the new members are a proper part of a pool of valid
\* candidates.
C9_Witness ==
    \E t \in Threads :
        /\ pc[t] = "l112"
        /\ Len(loc_pop) > Capacity
        /\ \E i \in 1..Len(loc_pop) :
              /\ ~HasInf(score[loc_pop[i]])
              /\ \A q \in 1..Len(population) : population[q] # loc_pop[i]

\* A call of register_function on a new candidate whose score is absent:
\* the candidate is the last object of the heap, and lines 47-52 leave its
\* score absent or make it the sentinel (no evaluator hands over the sentinel).
CallWithAbsentScore ==
    /\ ncalls' = ncalls + 1
    /\ Len(score') = Len(score) + 1
    /\ score'[Len(score')] \in {None, Sentinel}

\* C10 as stated: while the population is empty and no survival computation
\* has been performed, whatever the generation seed, registering a candidate
\* with an absent score leaves members, pending and generation unchanged,
\* the score absent, and the caller outside register_function.
C10_Original ==
    [][(CallWithAbsentScore /\ population = <<>> /\ nsurvived = 0) =>
          /\ score'[Len(score')] = None
          /\ pc' = pc
          /\ UNCHANGED <<population, next_gen_pop, generation>>]_vars

\* The candidates held by the population: members and pending.
Held == {population[i] : i \in 1..Len(population)}
            \cup {next_gen_pop[i] : i \in 1..Len(next_gen_pop)}

\* No held candidate has a numpy array as its score.
NoArrayHeld == \A o \in Held : score[o].kind # "arr"

\* The step of thread t from the acquire to line 61 or to the except clause.
LeavesL54(t) == pc[t] = "l54" /\ pc'[t] # "l54"

\* C11 as stated: after generation 0 a candidate registered with an absent
\* score gets the sentinel score and is appended to pending.  (All calls so
\* far were made with new objects, so that the newest object is the argument
\* of the call of t and its sentinel score stands for an absent one.)
C11_Original ==
    [][\A t \in Threads :
          (/\ LeavesL54(t)
           /\ generation >= 1
           /\ func[t] = Len(score) /\ Len(score) = ncalls
           /\ score[func[t]] = Sentinel)
          => next_gen_pop' = Append(next_gen_pop, func[t])]_vars

\* The run has objective dimensionality d: the scores evaluators have
\* handed over so far (the ones that are neither absent nor overwritten
\* with the sentinel) are lists of d finite numbers, and there is one.
RunOfDimension(d) ==
    /\ \A o \in 1..Len(score) :
           score[o] \notin {None, Sentinel} =>
               score[o].kind = "list" /\ Len(score[o].v) = d /\ ~HasInf(score[o])
    /\ \E o \in 1..Len(score) : score[o] \notin {None, Sentinel}

\* C12 as stated: in a run of objective dimensionality d >= 1 every held
\* candidate with the sentinel score has exactly d components, all
\* negative infinity.
C12_Original ==
    \A d \in 1..2 :
        RunOfDimension(d) =>
            \A o \in Held :
                HasInf(score[o]) =>
                    /\ Len(score[o].v) = d
                    /\ \A m \in 1..d : score[o].v[m] = NegInf

\* Two scores are the same vector of numbers (a list or an array).
SameVector(a, b) == a.kind # "none" /\ b.kind # "none" /\ a.v = b.v

\* Some held candidate has the representation of f or the score vector of f.
HasTwin(f) ==
    \E o \in Held : rep[o] = rep[f] \/ SameVector(score[f], score[o])

\* C13 as stated: for every candidate c, has_duplicate_function(c) returns
\* True if some held candidate has the same representation or the same
\* score vector as c, and returns False otherwise.
C13_Original ==
    \A f \in 1..Len(rep) :
        has_duplicate_function(f) = {IF HasTwin(f) THEN "T" ELSE "F"}

\* C14: a candidate that the check of line 55 finds to be a duplicate gets
\* the sentinel score and is appended to pending, and every call whose
\* check returns appends its candidate, so that pending grows by exactly
\* one; the score of a candidate that is no duplicate is left as it is.
C14_DuplicateKept ==
    [][\A t \in Threads :
          LeavesL54(t) =>
              LET D == has_duplicate_function(func[t])
              IN  /\ D = {"T"} =>
                        /\ pc'[t] = "l61"
                        /\ score' = [score EXCEPT ![func[t]] = Sentinel]
                  /\ D = {"F"} => pc'[t] = "l61" /\ score' = score
                  /\ pc'[t] = "l61" =>
                        /\ next_gen_pop' = Append(next_gen_pop, func[t])
                        /\ Len(next_gen_pop') = Len(next_gen_pop) + 1]_vars

\* C14 witness: in generation 0 (where an absent score is never replaced) a
\* new candidate has been found to be a duplicate: it is the last of pending
\* and has the sentinel score.
C14_Witness ==
    \E t \in Threads :
        /\ pc[t] = "l61"
        /\ generation = 0
        /\ func[t] = Len(score) /\ Len(score) = ncalls
        /\ score[func[t]] = Sentinel
        /\ Len(next_gen_pop) >= 2
        /\ next_gen_pop[Len(next_gen_pop)] = func[t]

\* members + pending, as the loops of has_duplicate_function and line 62
\* go through them.
Pool == population \o next_gen_pop

PendingPositions(o) == {i \in 1..Len(next_gen_pop) : next_gen_pop[i] = o}

\* C16: duplicate check and append are one atomic step for other
\* registrations.  When the first two calls on an empty population, each
\* with a new candidate with a valid score, come with the same
\* representation, then in every interleaving of the statements of lines
\* 54-58 the candidates, once both are in pending, are there once each, one
\* with its valid score and the other with the sentinel.
C16_DetectAndInsertAtomic ==
    (/\ allvalid /\ ncalls = 2 /\ Len(rep) = 2 /\ rep[1] = rep[2]
     /\ PendingPositions(1) # {} /\ PendingPositions(2) # {})
    => /\ Cardinality(PendingPositions(1)) = 1
       /\ Cardinality(PendingPositions(2)) = 1
       /\ \E a, b \in 1..2 :
             /\ a # b
             /\ score[a] \in ValidScores
             /\ score[b] = Sentinel

\* C16 witness: two threads are inside register_function at once with
\* identical new candidates; one has appended its candidate with a valid
\* score and still holds the lock, the other waits at the acquire.
C16_Witness ==
    \E t, u \in Threads :
        /\ allvalid /\ ncalls = 2 /\ Len(rep) = 2
        /\ rep[1] = rep[2] /\ score[1] = score[2]
        /\ pc[t] = "l61" /\ pc[u] = "l54"
        /\ func[t] # func[u]
        /\ next_gen_pop = <<func[t]>>
        /\ score[func[t]] \in ValidScores

\* Score a Pareto-dominates score b (larger is better): at least b in every
\* objective and greater in one.
ParetoDominates(a, b) ==
    /\ \A m \in 1..Len(a.v) : a.v[m] >= b.v[m]
    /\ \E m \in 1..Len(a.v) : a.v[m] > b.v[m]

\* The positions among S of the local pool that no position of S dominates.
NonDominated(S) ==
    {i \in S : ~ \E j \in S : ParetoDominates(score[loc_pop[j]], score[loc_pop[i]])}

\* The index of the non-dominated front of position i among the positions S,
\* counted from k: front k is NonDominated(S), front k + 1 the non-dominated
\* ones of the rest, and so on.
RECURSIVE FrontIndex(_, _, _)
FrontIndex(S, k, i) ==
    IF i \in NonDominated(S) THEN k
    ELSE FrontIndex(S \ NonDominated(S), k + 1, i)

\* The scores of the local pool, in the order of the pool.
PoolScores == [i \in 1..Len(loc_pop) |-> score[loc_pop[i]].v]

\* C17: after a successful survival computation the rank of every retained
\* candidate is the index of its non-dominated front in the pool, and the
\* first front the sorting returns is the set of the pool candidates that no
\* pool candidate Pareto-dominates.
C17_RankIsFrontIndex ==
    \A t \in Threads :
        pc[t] = "l111" =>
            /\ \A q \in 1..Len(loc_survivors) :
                   rank[loc_pop[loc_survivors[q]]]
                       = FrontIndex(1..Len(loc_pop), 0, loc_survivors[q])
            /\ LET first == NonDominatedSorting(ObjMatrix(loc_pop, score))[1]
               IN  {first[q] : q \in 1..Len(first)} = NonDominated(1..Len(loc_pop))

\* C17 witness: the survival computation has run on the pool with the scores
\* (2,0), (0,2), (1,1), (0,0): the first three have rank 0 and the survivors
\* are among them.
C17_Witness ==
    \E t \in Threads :
        /\ pc[t] = "l111"
        /\ PoolScores = <<(<<2, 0>>), (<<0, 2>>), (<<1, 1>>), (<<0, 0>>)>>
        /\ \A i \in 1..3 : rank[loc_pop[i]] = 0
        /\ NonDominated(1..4) = {1, 2, 3}
        /\ \A q \in 1..Len(loc_survivors) : loc_survivors[q] \in {1, 2, 3}

\* The positions of the local pool that the survival computation retains.
Retained == {loc_survivors[q] : q \in 1..Len(loc_survivors)}

\* The index of the front of position i of the local pool.
FrontOf(i) == FrontIndex(1..Len(loc_pop), 0, i)

\* The fronts of which some, but not all, positions are retained.
TruncatedFronts ==
    {k \in 0..Len(loc_pop) :
        /\ \E i \in Retained : FrontOf(i) = k
        /\ \E i \in (1..Len(loc_pop)) \ Retained : FrontOf(i) = k}

\* C18: after a successful survival computation, with every position of a
\* retained front k all positions of the fronts before k are retained, at
\* most one front is retained in part, and no position that is not retained
\* Pareto-dominates a retained one.
C18_FrontsInOrder ==
    \A t \in Threads :
        pc[t] = "l111" =>
            /\ \A i \in Retained : \A j \in 1..Len(loc_pop) :
                   FrontOf(j) < FrontOf(i) => j \in Retained
            /\ Cardinality(TruncatedFronts) <= 1
            /\ \A i \in Retained : \A j \in (1..Len(loc_pop)) \ Retained :
                   ~ParetoDominates(score[loc_pop[j]], score[loc_pop[i]])

\* C18 witness: valid candidates only; the first front is retained whole and
\* the second front in part.
C18_Witness ==
    \E t \in Threads :
        /\ pc[t] = "l111"
        /\ \A i \in 1..Len(loc_pop) : ~HasInf(score[loc_pop[i]])
        /\ TruncatedFronts = {1}
        /\ \E i \in Retained : FrontOf(i) = 0
        /\ \E i \in Retained : FrontOf(i) = 1

\* C19: a candidate with the sentinel score is among the survivors only if
\* every pool candidate with a finite score is, and whatever selection()
\* returns is a member whose score has no infinite component.
C19_InvalidOnlyFills ==
    /\ \A t \in Threads :
           pc[t] = "l111" =>
               \A i \in Retained :
                   score[loc_pop[i]] = Sentinel =>
                       \A j \in 1..Len(loc_pop) :
                           ~HasInf(score[loc_pop[j]]) => j \in Retained
    /\ \A o \in SelectionOutcomes :
           o.kind = "ok" =>
               /\ ~HasInf(score[o.f])
               /\ \E i \in 1..Len(population) : population[i] = o.f

\* C19 witness: the pool holds valid candidates and several with the
\* sentinel; all the valid ones are retained, one with the sentinel fills
\* the slot left over and another one is left out.
C19_Witness ==
    \E t \in Threads :
        /\ pc[t] = "l111"
        /\ \E i \in 1..Len(loc_pop) : ~HasInf(score[loc_pop[i]])
        /\ \A i \in 1..Len(loc_pop) : ~HasInf(score[loc_pop[i]]) => i \in Retained
        /\ \E i \in Retained : score[loc_pop[i]] = Sentinel
        /\ \E i \in (1..Len(loc_pop)) \ Retained : score[loc_pop[i]] = Sentinel

\* The step of thread t in which the survival computation it has triggered
\* raises and the exception is caught.
SurvivalFails(t) ==
    pc[t] = "l61" /\ pc'[t] = "l117" /\ nsurvfail' = nsurvfail + 1

\* C20: a call whose survival computation raises leaves members and
\* generation as they were when it took the lock, and pending as it was then
\* plus the candidate of the call: lines 54-58 only append the candidate,
\* the failing computation changes none of the three, and neither does the
\* return.
C20_FailedSurvivalKeepsState ==
    [][\A t \in Threads :
          /\ (LeavesL54(t) /\ pc'[t] = "l61") =>
                 /\ UNCHANGED <<population, generation>>
                 /\ next_gen_pop' = Append(next_gen_pop, func[t])
          /\ SurvivalFails(t) =>
                 /\ UNCHANGED <<population, next_gen_pop, generation>>
                 /\ Len(next_gen_pop) >= Capacity
                 /\ next_gen_pop[Len(next_gen_pop)] = func[t]
          /\ (pc[t] = "l117" /\ pc'[t] = "idle") =>
                 UNCHANGED <<population, next_gen_pop, generation>>]_vars

\* C20 witness: after a completed generation a survival computation has
\* failed; the thread is about to return, members are the survivors of the
\* generation before, and pending holds pop_size candidates or more, the
\* last one being the candidate of the call.
C20_Witness ==
    \E t \in Threads :
        /\ pc[t] = "l117"
        /\ nsurvfail = 1 /\ nsurvived = 1 /\ generation = gen0 + 1
        /\ Len(population) = Capacity
        /\ Len(next_gen_pop) >= Capacity
        /\ next_gen_pop[Len(next_gen_pop)] = func[t]

\* C21 as stated: register_function never lets an exception out, and a
\* candidate whose score has the wrong dimensionality is rejected (not held)
\* or neutralized (held with the sentinel score): whenever no call is inside
\* its critical section, the held candidates whose score is not the sentinel
\* all have scores of one length.
C21_Original ==
    NobodyInCS =>
        \A o, p \in Held :
            (score[o] # Sentinel /\ score[p] # Sentinel) =>
                Len(score[o].v) = Len(score[p].v)

\* C22 as stated: one bad candidate costs at most one failed survival
\* computation.  In a run of calls with new candidates of which exactly one
\* has a score that is not a valid one, once a survival computation has
\* failed the next one that is triggered does not fail.
C22_Original ==
    [][\A t \in Threads :
          (/\ SurvivalFails(t)
           /\ Len(score) = ncalls
           /\ Cardinality({o \in 1..Len(score) : score[o] \notin ValidScores}) = 1)
          => nsurvfail = 0]_vars

\* What the program holds of its own: the attributes of the Population
\* object and the fields of the candidates.
ProgramState == <<population, next_gen_pop, generation, lock, heap>>

\* C23 as stated: the step in which an exception of a registration or of a
\* survival computation is caught records the failure in state a caller can
\* read: it changes some attribute of the Population or some field of a
\* candidate.
C23_Original ==
    [][(failures' # failures) => (ProgramState' # ProgramState)]_vars

\* The positions of a thread inside selection().
InSelection == {"s132", "s134", "s136", "s138"}

\* The step in which the selection() call of thread t returns or raises.
LeavesSelection(t) == pc[t] \in InSelection /\ pc'[t] = "idle"

\* The objects that are elements of members.
Members == {population[i] : i \in 1..Len(population)}

\* C24 as stated: whenever selection() returns a candidate, the candidate is
\* an element of members as they are when it is returned, and its score has
\* no infinite component.
C24_Original ==
    [][\A t \in Threads :
          (LeavesSelection(t) /\ sel'[t].out.kind = "ok") =>
              /\ sel'[t].out.f \in Members
              /\ ~HasInf(score[sel'[t].out.f])]_vars

\* The step in which thread t calls selection() and reads members.
EntersSelection(t) == pc[t] = "idle" /\ pc'[t] = "s132"

\* C25: if members holds exactly one candidate with a finite score when
\* selection() reads them, the call keeps that candidate alone, never goes
\* to the tournament and returns it; if members holds none (an empty
\* population included), the call raises IndexError and returns no
\* candidate.
C25_OneOrNone ==
    [][\A t \in Threads :
          /\ EntersSelection(t) =>
                /\ Cardinality(ValidPositions) = 1 =>
                       \E i \in ValidPositions : sel'[t].funcs = <<population[i]>>
                /\ Cardinality(ValidPositions) = 0 => sel'[t].funcs = <<>>
          /\ pc[t] \in InSelection =>
                /\ sel'[t].funcs = sel[t].funcs
                /\ Len(sel[t].funcs) <= 1 => pc'[t] \in {"s132", "idle"}
          /\ (LeavesSelection(t) /\ Len(sel[t].funcs) = 1) =>
                sel'[t].out = Ok(sel[t].funcs[1])
          /\ (LeavesSelection(t) /\ Len(sel[t].funcs) = 0) =>
                sel'[t].out.kind = "IndexError"]_vars

\* C25 witness: one selection() call has raised IndexError, and another one
\* has returned the only member with a finite score while members held a
\* second candidate, with the sentinel score.
C25_Witness ==
    \E t, u \in Threads :
        /\ pc[t] = "idle" /\ pc[u] = "idle"
        /\ sel[u].out.kind = "IndexError"
        /\ sel[t].out.kind = "ok"
        /\ sel[t].funcs = <<sel[t].out.f>>
        /\ Cardinality(ValidPositions) = 1
        /\ Len(population) = Capacity
        /\ sel[t].out.f \in Members

\* C26 as stated: with more than one valid candidate the call draws two
\* different valid members, first and second, and returns the one with the
\* strictly lower rank; with equal ranks the one with the strictly higher
\* crowding; with both equal the second.  The candidate returned never has a
\* strictly higher rank than the other one drawn.
C26_Original ==
    [][\A t \in Threads :
          /\ (pc[t] = "s132" /\ pc'[t] = "s134") =>
                /\ sel'[t].parents[1] # sel'[t].parents[2]
                /\ \A q \in 1..2 : \E i \in 1..Len(sel[t].funcs) :
                       sel'[t].parents[q] = sel[t].funcs[i]
          /\ (LeavesSelection(t) /\ Len(sel[t].funcs) > 1) =>
                LET first  == sel[t].parents[1]
                    second == sel[t].parents[2]
                    winner == sel'[t].out.f
                IN  /\ winner = Tournament(first, second)
                    /\ rank[winner] <= rank[first]
                    /\ rank[winner] <= rank[second]]_vars

\* A step of the selection() call of thread t that reads shared state: the
\* read of members and of their scores at line 131, the reads of rank and
\* crowding at lines 134, 136 and 138.
SelectionReads(t) ==
    \/ EntersSelection(t)
    \/ pc[t] \in {"s134", "s136", "s138"} /\ pc'[t] # pc[t]

\* C27 as stated: selection() reads under the lock of register_function, so
\* that no read of selection() happens while another thread is inside the
\* critical section of register_function.
C27_Original ==
    [][\A t \in Threads :
          SelectionReads(t) => \A u \in Threads : pc[u] \notin InCS]_vars

\* The positions of a thread whose survival computation has written rank
\* and crowding (lines 104-106) but has not completed line 113: members not
\* yet replaced ("l111"), members replaced and pending not yet cleared
\* ("l112"), pending cleared and generation not yet incremented ("l113").
MidSurvival == {"l111", "l112", "l113"}

\* C28 as stated: no read of selection() observes an intermediate state of a
\* survival computation: members are not read when they are replaced
\* already while pending is not yet cleared or generation not yet
\* incremented, and rank and crowding are not read between the writes of a
\* survival computation and its end.
C28_Original ==
    [][\A t \in Threads :
          /\ EntersSelection(t) => \A u \in Threads : pc[u] \notin {"l112", "l113"}
          /\ (SelectionReads(t) /\ ~EntersSelection(t)) =>
                \A u \in Threads : pc[u] \notin MidSurvival]_vars

\* A step writes a field of a candidate that exists already.
FieldWritten ==
    \E o \in 1..Len(score) :
        score'[o] # score[o] \/ rank'[o] # rank[o] \/ crowding'[o] # crowding[o]

\* A step in which line 52 overwrites the absent score of a new candidate.
AbsentOverwritten == CallWithAbsentScore /\ score'[Len(score')] = Sentinel

\* C29 as stated: every write of the Population to a field of a candidate
\* (the sentinel for an absent score, the sentinel for a duplicate, rank,
\* crowding) is made by a thread that holds the lock.
C29_Original ==
    [][(FieldWritten \/ AbsentOverwritten) =>
          \E t \in Threads : pc'[t] # pc[t] /\ lock' = t]_vars

\* C30 as stated: the list an external reader holds is a snapshot.  No step
\* of a register_function call changes its elements, and no change the
\* reader makes to it changes members.
C30_Original ==
    [][ext.kind # "none" =>
          /\ (pc' # pc \/ ncalls' # ncalls) => View' = View
          /\ (pc' = pc /\ ncalls' = ncalls) => population' = population]_vars

\* The number of rows of the front that overflows the capacity, 0 when no
\* front does, and the number of survivors taken before it.
RECURSIVE SplitLen(_, _, _)
SplitLen(fronts, k, n) ==
    IF k > Len(fronts) THEN 0
    ELSE IF n + Len(fronts[k]) > Capacity THEN Len(fronts[k])
    ELSE SplitLen(fronts, k + 1, n + Len(fronts[k]))

\* The elements of a sequence.
Range(s) == {s[i] : i \in 1..Len(s)}

TakenBefore(fronts, k) ==
    Cardinality({i \in Retained : \E m \in 1..(k - 1) : i \in Range(fronts[m])})

\* C32: when a front would overflow the remaining capacity by n_remove > 0,
\* exactly len(front) - n_remove of its candidates are retained, and every
\* retained candidate of the front has a crowding distance greater than or
\* equal to that of every excluded candidate of the front.
C32_TruncationKeepsMostCrowded ==
    \A t \in Threads :
        pc[t] = "l111" =>
            LET F      == ObjMatrix(loc_pop, score)
                fronts == NonDominatedSorting(F)
            IN  \A k \in 1..Len(fronts) :
                    LET front    == fronts[k]
                        n        == Len(front)
                        n_remove == TakenBefore(fronts, k) + n - Capacity
                        cd       == crowding_of_front(RowsOf(F, front))
                        kept     == {j \in 1..n : front[j] \in Retained}
                    IN  n_remove > 0 =>
                            /\ Cardinality(kept) = n - n_remove
                            /\ \A j \in kept : \A e \in (1..n) \ kept :
                                   FracGeq(cd[j], cd[e])

\* C32 witness: a front of three candidates overflows, the two with infinite
\* crowding are retained and the one with finite crowding is excluded.
C32_Witness ==
    \E t \in Threads :
        /\ pc[t] = "l111"
        /\ LET F      == ObjMatrix(loc_pop, score)
               fronts == NonDominatedSorting(F)
               front  == fronts[1]
               cd     == crowding_of_front(RowsOf(F, front))
           IN  /\ Len(front) = 3
               /\ Len(loc_survivors) = Capacity
               /\ \E e \in 1..3 :
                      /\ front[e] \notin Retained
                      /\ ~IsInf(cd[e])
                      /\ \A j \in (1..3) \ {e} : front[j] \in Retained /\ IsInf(cd[j])

\* The rows of a front are ordered along objective m: no two of them have
\* the same value there, and no value is infinite.
OrderedAlong(Ff, m) ==
    /\ \A i, j \in 1..Len(Ff) : i # j => Ff[i][m] # Ff[j][m]
    /\ \A i \in 1..Len(Ff) : Ff[i][m] # PosInf /\ Ff[i][m] # NegInf

\* The positions of the rows with the least and the largest value in
\* objective m.
Boundary(Ff, m) ==
    {i \in 1..Len(Ff) : \/ \A j \in 1..Len(Ff) : Ff[i][m] <= Ff[j][m]
                        \/ \A j \in 1..Len(Ff) : Ff[i][m] >= Ff[j][m]}

\* C33: for a front of three points that are ordered along an objective, the
\* two boundary points get infinite crowding and the interior point gets a
\* finite crowding, strictly smaller than theirs; the value stored in each
\* candidate's crowding field is the one computed for its own position in
\* the front.
C33_BoundaryInfiniteInteriorFinite ==
    \A t \in Threads :
        pc[t] = "l111" =>
            LET F      == ObjMatrix(loc_pop, score)
                fronts == NonDominatedSorting(F)
            IN  \A k \in 1..Len(fronts) :
                    LET front == fronts[k]
                        Ff    == RowsOf(F, front)
                        cd    == crowding_of_front(Ff)
                    IN  (Len(front) = 3 /\ OrderedAlong(Ff, 1)) =>
                            /\ Cardinality(Boundary(Ff, 1)) = 2
                            /\ \A j \in 1..3 :
                                   /\ crowding[loc_pop[front[j]]] = cd[j]
                                   /\ j \in Boundary(Ff, 1) => IsInf(cd[j])
                                   /\ j \notin Boundary(Ff, 1) =>
                                          /\ ~IsInf(cd[j])
                                          /\ \A b \in Boundary(Ff, 1) :
                                                 /\ FracGeq(cd[b], cd[j])
                                                 /\ ~FracGeq(cd[j], cd[b])

\* C33 witness: a front of the three points (2, 0), (1, 1), (0, 2) of the
\* objective matrix; the interior candidate holds crowding 1, the two others
\* infinity.
C33_Witness ==
    \E t \in Threads :
        /\ pc[t] = "l111"
        /\ LET F      == ObjMatrix(loc_pop, score)
               fronts == NonDominatedSorting(F)
           IN  \E k \in 1..Len(fronts) :
                   /\ Len(fronts[k]) = 3
                   /\ {F[i] : i \in Range(fronts[k])} = {<<-2, 0>>, <<-1, -1>>, <<0, -2>>}
                   /\ \A i \in Range(fronts[k]) :
                          crowding[loc_pop[i]] = IF F[i] = <<-1, -1>> THEN <<1, 1>> ELSE Inf

\* No thread is between the append of line 58 and the end of the survival
\* computation of its call.
BetweenRegistrations == \A t \in Threads : pc[t] \in {"idle", "l54", "l117"}

\* C34: in the absence of survival failures, after A accepted registrations
\* on a Population created empty with seed g0, generation = g0 + A \div
\* capacity and len(pending) = A % capacity; a batch boundary is taken by the
\* registration that brings pending to capacity, and the pool of that step
\* is the members followed by the capacity pending candidates, each once.
C34_BatchArithmetic ==
    nsurvfail = 0 =>
        /\ BetweenRegistrations =>
               /\ generation = gen0 + (naccepted \div Capacity)
               /\ Len(next_gen_pop) = naccepted % Capacity
        /\ \A t \in Threads :
               pc[t] = "l111" =>
                   /\ naccepted % Capacity = 0
                   /\ generation = gen0 + (naccepted \div Capacity) - 1
                   /\ Len(next_gen_pop) = Capacity
                   /\ next_gen_pop[Capacity] = func[t]
                   /\ loc_pop = population \o next_gen_pop
                   /\ \A u \in Threads \ {t} : pc[u] \in {"idle", "l54"}

\* C34 witness: three accepted registrations out of four calls, on a
\* Population seeded with generation 1: one batch is through, one candidate
\* is pending.
C34_Witness ==
    /\ nsurvfail = 0
    /\ \A t \in Threads : pc[t] = "idle"
    /\ gen0 = 1
    /\ ncalls = 4
    /\ naccepted = 3
    /\ generation = 2
    /\ Len(next_gen_pop) = 1

\* C35: members changes only in generational steps.  The only step of
\* register_function that writes members is line 111; the call that takes it
\* goes on, holding the lock, through lines 112 and 113, where generation is
\* incremented by 1, and generation changes nowhere else.  A call that is
\* discarded, stays below capacity or fails in the survival computation
\* never reaches line 111.
C35_MembersChangeWithGeneration ==
    [][/\ population' # population =>
              \E t \in Threads : pc[t] = "l111" /\ pc'[t] = "l112" /\ lock = t
       /\ generation' # generation =>
              \E t \in Threads : /\ pc[t] = "l113" /\ pc'[t] = "l117" /\ lock = t
                                 /\ generation' = generation + 1
       /\ \A t \in Threads :
              /\ (pc[t] = "l111" /\ pc'[t] # "l111") => pc'[t] = "l112"
              /\ (pc[t] = "l112" /\ pc'[t] # "l112") => pc'[t] = "l113"
              /\ (pc[t] = "l113" /\ pc'[t] # "l113") =>
                     pc'[t] = "l117" /\ generation' = generation + 1
              /\ (pc'[t] = "l117" /\ pc[t] \notin {"l117", "l113"}) =>
                     population' = population /\ generation' = generation
              /\ (pc'[t] = "idle" /\ pc[t] \notin {"idle", "l117"}) =>
                     population' = population /\ generation' = generation]_vars

\* C35 witness: a call has completed the second survival computation; the
\* members are the survivors of its pool, they are not the members the pool
\* began with, and generation is 2.
C35_Witness ==
    \E t \in Threads :
        /\ pc[t] = "l117"
        /\ Len(loc_pop) = 2 * Capacity
        /\ generation = 2
        /\ population = [q \in 1..Len(loc_survivors) |-> loc_pop[loc_survivors[q]]]
        /\ population # SubSeq(loc_pop, 1, Capacity)

\* C36: after a failed survival computation pending holds at least capacity
\* candidates (the failing step leaves pending as it is, and between
\* registrations pending is that long only after a failure); a registration
\* that appends to such a pending list attempts the survival computation
\* again, on members followed by all of pending; and a successful attempt
\* goes on to clear pending and to increment generation by exactly 1.
C36_RetryUntilSuccess ==
    /\ [](BetweenRegistrations /\ Len(next_gen_pop) >= Capacity => nsurvfail > 0)
    /\ [](\A t \in Threads : pc[t] = "l113" => next_gen_pop = <<>>)
    /\ [][\A t \in Threads :
              /\ nsurvfail' # nsurvfail =>
                     /\ nsurvfail' = nsurvfail + 1
                     /\ Len(next_gen_pop) >= Capacity
                     /\ UNCHANGED <<population, next_gen_pop, generation>>
              /\ (pc[t] = "l61" /\ pc'[t] # "l61" /\ Len(next_gen_pop) > Capacity) =>
                     \/ /\ pc'[t] = "l117"
                        /\ nsurvfail' = nsurvfail + 1
                     \/ /\ pc'[t] = "l111"
                        /\ loc_pop' = population \o next_gen_pop
                        /\ nsurvfail' = nsurvfail
              /\ (pc[t] = "l111" /\ pc'[t] # "l111") => pc'[t] = "l112"
              /\ (pc[t] = "l112" /\ pc'[t] # "l112") =>
                     pc'[t] = "l113" /\ next_gen_pop' = <<>>
              /\ (pc[t] = "l113" /\ pc'[t] # "l113") =>
                     /\ pc'[t] = "l117"
                     /\ generation' = generation + 1
                     /\ next_gen_pop' = <<>>]_vars

\* C36 witness: a survival computation has failed on two pending candidates,
\* the next registration has attempted it again on all three and succeeded:
\* pending is empty and generation is 1.
C36_Witness ==
    \E t \in Threads :
        /\ pc[t] = "l117"
        /\ nsurvfail = 1
        /\ population = [q \in 1..Len(loc_survivors) |-> loc_pop[loc_survivors[q]]]
        /\ Len(loc_pop) = Capacity + 1
        /\ Len(population) = Capacity
        /\ next_gen_pop = <<>>
        /\ generation = 1

DetectedAsDuplicate(t) ==
    /\ pc[t] = "l54"
    /\ pc'[t] = "l61"
    /\ "T" \in has_duplicate_function(func[t])
    /\ score'[func[t]] = Sentinel

\* C38 as stated: registering a candidate that is detected as a duplicate
\* leaves the score, rank and crowding of every candidate already held in
\* members or pending unchanged, also when the candidate passed is an object
\* the population holds already.
C38_Original ==
    [][\A t \in Threads :
           DetectedAsDuplicate(t) =>
               \A o \in Range(population \o next_gen_pop) :
                   /\ score'[o] = score[o]
                   /\ rank'[o] = rank[o]
                   /\ crowding'[o] = crowding[o]]_vars

\* A step of selection() of thread t: line 131, or one of lines 132-143.
SelectionStep(t) ==
    \/ pc[t] = "idle" /\ pc'[t] = "s132"
    \/ pc[t] \in {"s132", "s134", "s136", "s138"} /\ pc'[t] # pc[t]

\* The step of has_duplicate_function() of thread t, called at line 55.
DuplicateCheckStep(t) == pc[t] = "l55" /\ pc'[t] # "l55"

\* C39: selection() and has_duplicate_function() are read-only: their steps
\* leave members, pending, generation and every candidate's score, rank and
\* crowding unchanged, whether the call returns a value or raises.
C39_ReadOnly ==
    [][\A t \in Threads :
           (SelectionStep(t) \/ DuplicateCheckStep(t)) =>
               UNCHANGED <<population, next_gen_pop, generation, score, rank,
                           crowding>>]_vars

\* C39 witness: one call of selection() has raised IndexError, another has
\* returned a member, one duplicate check has raised and others have
\* returned.
C39_Witness ==
    /\ \E t \in Threads : sel[t].out = IndexError
    /\ \E t \in Threads : sel[t].out.kind = "ok" /\ sel[t].out.f \in Range(population)
    /\ ndupfail = 1
    /\ naccepted = 2

(***************************************************************************)
(* JSSPEvaluation.schedule_jobs, evaluation.py lines 117-168.  jssp holds  *)
(* the locals of one call; jobs and machines are counted from 1.  The      *)
(* heuristic `eva` is a function of the caller: it is handed the lists     *)
(* machine_status and job_status themselves (line 153), not copies, so     *)
(* that besides choosing an operation it can write to them.                *)
(***************************************************************************)
\* Lines 130-138: the locals when the loop of line 141 is reached.
Called(nj, nm, pt) ==
    [pc |-> "l141", n_jobs |-> nj, n_machines |-> nm,
     machine_status |-> [m \in 1..nm |-> 0],
     job_status |-> [j \in 1..nj |-> 0],
     operation_sequence |-> [j \in 1..nj |-> <<>>],
     all_operations |-> [i \in 1..(nj * nm) |->
                            LET j == ((i - 1) \div nm) + 1
                                m == ((i - 1) % nm) + 1
                            IN  <<j, m, pt[j][m]>>],
     iterations |-> 0, makespan |-> 0, written |-> FALSE]

\* Lines 143-147: the operations whose job is free when its machine is.
feasible_operations(c) ==
    SelectSeq(c.all_operations,
              LAMBDA op : c.job_status[op[1]] <= c.machine_status[op[2]])

\* What a heuristic can leave in the two lists it is handed: it leaves them
\* as they are, or it has written 0 to one entry of one of them.  The value
\* is <<machine_status, job_status>>.
HeuristicLeaves(c) ==
    {<<c.machine_status, c.job_status>>}
    \cup {<<[c.machine_status EXCEPT ![m] = 0], c.job_status>> : m \in 1..c.n_machines}
    \cup {<<c.machine_status, [c.job_status EXCEPT ![j] = 0]>> : j \in 1..c.n_jobs}

\* Lines 149-153: <<next_operation, machine_status, job_status>> after the
\* choice: all_operations[0] when nothing is feasible, else what the
\* heuristic returns, one of the feasible operations, with the lists as the
\* heuristic leaves them.
NextOperations(c) ==
    LET feas == feasible_operations(c)
    IN  IF Len(feas) = 0
        THEN {<<c.all_operations[1], c.machine_status, c.job_status>>}
        ELSE {<<feas[i], w[1], w[2]>> : i \in 1..Len(feas), w \in HeuristicLeaves(c)}

\* list.remove(x), line 164: the list without the first element equal to x.
ListRemove(l, x) ==
    LET i == CHOOSE k \in 1..Len(l) : l[k] = x /\ \A q \in 1..(k - 1) : l[q] # x
    IN  SubSeq(l, 1, i - 1) \o SubSeq(l, i + 1, Len(l))

Max2(a, b) == IF a >= b THEN a ELSE b

\* Lines 156-164 for the choice ch.
Scheduled(c, ch) ==
    LET job_id     == ch[1][1]
        machine_id == ch[1][2]
        start_time == Max2(ch[3][job_id], ch[2][machine_id])
        end_time   == start_time + ch[1][3]
    IN  [c EXCEPT !.machine_status = [ch[2] EXCEPT ![machine_id] = end_time],
                  !.job_status = [ch[3] EXCEPT ![job_id] = end_time],
                  !.operation_sequence[job_id] = Append(@, <<machine_id, start_time, end_time>>),
                  !.all_operations = ListRemove(@, ch[1]),
                  !.iterations = @ + 1,
                  !.written = (@ \/ ch[2] # c.machine_status \/ ch[3] # c.job_status)]

\* The variables of the population, which schedule_jobs does not touch.
popvars == <<population, next_gen_pop, generation, lock, heap, pc, func, locals,
             gen0, ncalls, nsurvived, naccepted, failures, allvalid, sel, ext>>

\* One iteration of the loop of line 141.
ScheduleNext ==
    /\ jssp.pc = "l141"
    /\ Len(jssp.all_operations) > 0
    /\ \E ch \in NextOperations(jssp) : jssp' = Scheduled(jssp, ch)
    /\ UNCHANGED popvars

\* The largest element of a nonempty list of numbers.
ListMax(l) == CHOOSE x \in Range(l) : \A y \in Range(l) : x >= y

\* Lines 141 and 167-168: the loop ends, makespan = max(job_status), return.
ReturnMakespan ==
    /\ jssp.pc = "l141"
    /\ Len(jssp.all_operations) = 0
    /\ jssp' = [jssp EXCEPT !.pc = "returned", !.makespan = ListMax(jssp.job_status)]
    /\ UNCHANGED popvars

\* schedule_jobs is called with n_jobs jobs, n_machines machines and a
\* matrix of positive processing times.
InitJSSP ==
    /\ PopulationFrom(0, NoList)
    /\ \E nj \in 1..MaxJobs, nm \in 1..MaxMachines :
           \E pt \in [1..nj -> [1..nm -> 1..MaxTime]] : jssp = Called(nj, nm, pt)

NextJSSP == ScheduleNext \/ ReturnMakespan

SpecJSSP == InitJSSP /\ [][NextJSSP]_vars

\* The scheduled operations as <<job, machine, start, end>>, by their place
\* <<job, k>> in operation_sequence.
Places ==
    {<<j, k>> : j \in 1..jssp.n_jobs, k \in 1..(MaxJobs * MaxMachines)}
        \cap {p \in (1..MaxJobs) \X (1..(MaxJobs * MaxMachines)) :
                 p[1] <= jssp.n_jobs /\ p[2] <= Len(jssp.operation_sequence[p[1]])}
JobOf(p)     == p[1]
MachineOf(p) == jssp.operation_sequence[p[1]][p[2]][1]
StartOf(p)   == jssp.operation_sequence[p[1]][p[2]][2]
EndOf(p)     == jssp.operation_sequence[p[1]][p[2]][3]

\* Two scheduled operations overlap in time.
Overlap(p, q) == StartOf(p) < EndOf(q) /\ StartOf(q) < EndOf(p)

\* The schedule of a call that has returned is as C40 has it.
ScheduleAsClaimed ==
    /\ jssp.iterations = jssp.n_jobs * jssp.n_machines
    /\ \A j \in 1..jssp.n_jobs : \A m \in 1..jssp.n_machines :
           Cardinality({p \in Places : JobOf(p) = j /\ MachineOf(p) = m}) = 1
    /\ \A p, q \in Places :
           (p # q /\ MachineOf(p) = MachineOf(q)) => ~Overlap(p, q)
    /\ \A p, q \in Places :
           (p # q /\ JobOf(p) = JobOf(q)) => ~Overlap(p, q)
    /\ \E p \in Places : jssp.makespan = EndOf(p)
    /\ \A p \in Places : jssp.makespan >= EndOf(p)

\* C40 as stated: schedule_jobs terminates after exactly n_jobs * n_machines
\* iterations and schedules every (job, machine) operation exactly once,
\* provided the heuristic always returns one of the feasible operations it
\* was offered; no two operations on the same machine overlap in time, no
\* two operations of the same job overlap in time, and the returned makespan
\* equals the largest end time.
C40_Original == jssp.pc = "returned" => ScheduleAsClaimed

\* What holds of the claim of C40 in every call: the loop runs once for each
\* operation and schedules each once; and the whole of it in the calls in
\* which the heuristic has written to neither list.
ScheduleOfReadingHeuristic ==
    /\ jssp.pc # "none" =>
           jssp.iterations + Len(jssp.all_operations) = jssp.n_jobs * jssp.n_machines
    /\ jssp.pc = "returned" =>
           /\ jssp.iterations = jssp.n_jobs * jssp.n_machines
           /\ \A j \in 1..jssp.n_jobs : \A m \in 1..jssp.n_machines :
                  Cardinality({p \in Places : JobOf(p) = j /\ MachineOf(p) = m}) = 1
           /\ ~jssp.written => ScheduleAsClaimed

=============================================================================
